---- MODULE Spec2Model ----
(***************************************************************************)
(* Model of the Node.js load balancer emitted by                          *)
(* src/codegen/lb_codegen.py (create_node_lb_script): the per-request      *)
(* handler, the proxyRes/error callbacks of the shared reverse proxy, and  *)
(* the three in-memory maps (stickyRoutes, targetCooldowns, modelHealth).  *)
(*                                                                         *)
(* Time is counted in minutes (Date.now() / 60000).  Names of models are   *)
(* sequences of fragments, so that String.includes and slice-before-'#'    *)
(* are computed and not looked up.                                         *)
(***************************************************************************)
EXTENDS Integers, Sequences, FiniteSets, TLC

VARIABLES
    now,            \* Date.now(), in minutes
    ticks,          \* number of clock advances so far (bounds the run)
    started,        \* number of client requests accepted so far (bounds the run)
    MAX_TARGET_RETRIES, \* lb_max_target_retries, fixed at startup
    RETRY_AUTH_ON_5XX,  \* lb_retry_auth_on_5xx, fixed at startup
    globalConf,     \* the other settings create_node_lb_script reads from the configuration
    MODEL_ROUTER_CONFIG, \* the router configuration written into the script
    forwarded,      \* a path and a parsed body on their way through normalizeProxyPath and the rewriter
    drawn,          \* a route, the candidates getRouteCandidates made of it and the target drawn
    stickyRoutes,   \* Map  stickyRouteKey -> {instance, target, rewrite, expiresAt}
    targetCooldowns,\* Map  targetCooldownKey -> {expiresAt}
    modelHealth,    \* Map  modelHealthKey -> {failureStreak, successStreak, updatedAt}
    req,            \* per request slot: the fields the handlers keep on req / res
    obs,            \* per request slot: what the client and the upstreams have seen
    stickyLog,      \* per sticky key: the last classification that set or cleared it
    cooldownLog     \* per cooldown key: the last classified response recorded for it

vars == <<now, ticks, started, MAX_TARGET_RETRIES, RETRY_AUTH_ON_5XX, globalConf,
          MODEL_ROUTER_CONFIG, forwarded, drawn, stickyRoutes, targetCooldowns, modelHealth, req, obs, stickyLog, cooldownLog>>

----------------------------------------------------------------------------
(* Bounds of the model *)

MaxInFlight == 1
MaxConcurrent == 2
MaxRequests == 2
MaxTicks == 1
MaxRetriesConfig == 1

\* The request slots; Spec takes requests one at a time (SerialSlots),
\* SpecConcurrent overlaps them
Slots == 1..MaxConcurrent
SerialSlots == 1..MaxInFlight

----------------------------------------------------------------------------
(* Tunables, in minutes *)

AUTH_COOLDOWN_MS == 5
VALIDATION_COOLDOWN_MS == 720
\* lb_transient_cooldown_ms
TRANSIENT_COOLDOWN_MS == globalConf.lb_transient_cooldown_ms
TRANSIENT_HEAVY_COOLDOWN_MS == 2
SIGNATURE_COOLDOWN_MS == 2
QUOTA_COOLDOWN_MS == 720
STICKY_ROUTE_TTL_MS == 10080
MAX_STICKY_KEYS == 500
MODEL_HEALTH_TTL_MS == 120

RETRYABLE_ROUTE_ACTIONS == {"auth", "transient"}

\* The clock advances by one of these amounts (one per distinct expiry scale).
TickSteps == {SIGNATURE_COOLDOWN_MS, STICKY_ROUTE_TTL_MS}

----------------------------------------------------------------------------
(* The RouteTable: ROUTES, as json.dumps(routes) writes it *)

NoTarget == [instance |-> "", target |-> "", rewrite |-> <<>>]

TA == [instance |-> "i1", target |-> "http://127.0.0.1:8001", rewrite |-> <<"claude", "-a">>]
TB == [instance |-> "i2", target |-> "http://127.0.0.1:8002", rewrite |-> <<"gpt", "-b">>]
TC == [instance |-> "i3", target |-> "http://127.0.0.1:8003", rewrite |-> <<"claude", "-c">>]

\* Object.keys(ROUTES): insertion order of the routing table
RouteOrder == <<"fast", "slow">>

ROUTES ==
    [m \in {"fast", "slow"} |->
        IF m = "fast"
        THEN [targets |-> <<TA, TB>>, weights |-> <<1, 2>>]
        ELSE [targets |-> <<TC, TA>>, weights |-> <<1, 1>>]]

HasRoute(m) == m \in DOMAIN ROUTES

DEFAULT_TARGET == TA.target

AllTargets == {TA, TB, TC}

\* String.prototype.includes on a name made of fragments
includes(name, frag) == \E i \in 1..Len(name) : name[i] = frag

getModelGroup(rewrite) ==
    IF rewrite = <<>> THEN <<>>
    ELSE IF includes(rewrite, "gpt") THEN <<"gpt">>
    ELSE IF includes(rewrite, "claude") THEN <<"claude">>
    ELSE IF includes(rewrite, "gemini") THEN <<"gemini">>
    ELSE rewrite

\* [a1, .., an] without repetitions, first occurrences kept
RECURSIVE Dedup(_)
Dedup(s) ==
    IF s = <<>> THEN <<>>
    ELSE LET init == Dedup(SubSeq(s, 1, Len(s) - 1))
             last == s[Len(s)]
         IN IF \E i \in 1..Len(init) : init[i] = last THEN init ELSE Append(init, last)

RECURSIVE SelectSeqBy(_, _)
\* models of RouteOrder[1..n] having a target of the given group, in order
SelectSeqBy(group, n) ==
    IF n = 0 THEN <<>>
    ELSE LET m == RouteOrder[n]
             hit == \E i \in 1..Len(ROUTES[m].targets) :
                        getModelGroup(ROUTES[m].targets[i].rewrite) = group
         IN IF hit THEN Append(SelectSeqBy(group, n - 1), m)
            ELSE SelectSeqBy(group, n - 1)

\* SIGNATURE_GROUP_ROUTES[group] || []
SIGNATURE_GROUP_ROUTES(group) ==
    IF group = <<>> THEN <<>> ELSE Dedup(SelectSeqBy(group, Len(RouteOrder)))

targetIdentity(target) == <<target.instance, target.target, target.rewrite>>

stickyRouteKey(sessionKey, model) == <<sessionKey, model>>

targetCooldownKey(model, target) ==
    <<model, target.instance, target.target, target.rewrite>>

----------------------------------------------------------------------------
(* JavaScript Map helpers *)

EmptyMap == [k \in {} |-> k]

MapSet(m, k, v) == [x \in (DOMAIN m) \cup {k} |-> IF x = k THEN v ELSE m[x]]

MapDelete(m, k) == [x \in (DOMAIN m) \ {k} |-> m[x]]

MapDeleteAll(m, ks) == [x \in (DOMAIN m) \ ks |-> m[x]]

----------------------------------------------------------------------------
(* Response classifier *)

ValidationPhrases == {"validation_required", "verify your account", "validation_url"}
QuotaPhrases == {"insufficient_quota", "quota exceeded", "quote_exceeded",
                 "subscription quota", "quota limit", "quota refresh"}
AuthPhrases == {"auth_unavailable", "auth_not_found"}

\* summary: the set of phrases the lowercased error summary includes
classifyResponse(statusCode, summary, hasSig) ==
    IF statusCode >= 200 /\ statusCode < 300
    THEN [kind |-> "success", clearSticky |-> FALSE, cooldownMs |-> 0]
    ELSE
    LET isValidationError == statusCode = 403 /\ summary \cap ValidationPhrases # {}
        isQuotaError == summary \cap QuotaPhrases # {}
        isAuthError == summary \cap AuthPhrases # {} \/ statusCode = 401 \/ statusCode = 403
        isSignatureError == hasSig /\ "signature" \in summary
                            /\ statusCode \in {400, 422, 500}
    IN  IF isAuthError
        THEN [kind |-> "auth", clearSticky |-> TRUE,
              cooldownMs |-> IF isValidationError THEN VALIDATION_COOLDOWN_MS
                             ELSE IF isQuotaError THEN QUOTA_COOLDOWN_MS
                             ELSE AUTH_COOLDOWN_MS]
        ELSE IF isSignatureError
        THEN [kind |-> "signature", clearSticky |-> TRUE, cooldownMs |-> SIGNATURE_COOLDOWN_MS]
        ELSE IF statusCode \in {408, 429, 500, 502, 503, 504}
        THEN [kind |-> "transient", clearSticky |-> TRUE,
              cooldownMs |-> IF statusCode = 429 \/ statusCode = 503
                             THEN TRANSIENT_HEAVY_COOLDOWN_MS
                             ELSE TRANSIENT_COOLDOWN_MS]
        ELSE IF statusCode = 400 \/ statusCode = 422
        THEN [kind |-> "client", clearSticky |-> FALSE, cooldownMs |-> 0]
        ELSE [kind |-> "other", clearSticky |-> statusCode >= 500,
              cooldownMs |-> IF statusCode >= 500 THEN TRANSIENT_COOLDOWN_MS ELSE 0]

----------------------------------------------------------------------------
(* Cooldown map *)
\* Variant of setTargetCooldown that records nothing
setTargetCooldownNever(cd, model, target, cooldownMs, t) == cd

setTargetCooldown(cd, model, target, cooldownMs, t) ==
    IF model = "" \/ target = NoTarget \/ cooldownMs <= 0 THEN cd
    ELSE MapSet(cd, targetCooldownKey(model, target), [expiresAt |-> t + cooldownMs])
\* Variant of isTargetCooling that never looks at expiresAt
isTargetCoolingForever(cd, model, target, t) ==
    targetCooldownKey(model, target) \in DOMAIN cd

\* The value isTargetCooling returns
isTargetCooling(cd, model, target, t) ==
    LET key == targetCooldownKey(model, target)
    IN  key \in DOMAIN cd /\ ~(cd[key].expiresAt <= t)

\* The map after isTargetCooling(model, target): an expired entry is deleted on read
afterIsTargetCooling(cd, model, target, t) ==
    LET key == targetCooldownKey(model, target)
    IN  IF key \in DOMAIN cd /\ cd[key].expiresAt <= t THEN MapDelete(cd, key) ELSE cd

\* routeWeights[i] || 1
weightOr1(weights, i) ==
    IF i \in 1..Len(weights) /\ weights[i] # 0 THEN weights[i] ELSE 1

RECURSIVE keepNotCooling(_, _, _, _, _)
\* indices i <= n of route.targets that are not cooling, in order
keepNotCooling(cd, route, model, t, n) ==
    IF n = 0 THEN <<>>
    ELSE LET rest == keepNotCooling(cd, route, model, t, n - 1)
         IN  IF isTargetCooling(cd, model, route.targets[n], t) THEN rest
             ELSE Append(rest, n)

\* Variant of getRouteCandidates without the fallback to the whole route
getRouteCandidatesNoFallback(cd, route, model, t) ==
    LET idx == keepNotCooling(cd, route, model, t, Len(route.targets))
    IN  [targets |-> [i \in 1..Len(idx) |-> route.targets[idx[i]]],
         weights |-> [i \in 1..Len(idx) |-> weightOr1(route.weights, idx[i])],
         cooledOut |-> Len(idx) = 0]

getRouteCandidates(cd, route, model, t) ==
    LET idx == keepNotCooling(cd, route, model, t, Len(route.targets))
    IN  IF Len(idx) = 0
        THEN [targets |-> route.targets,
              weights |-> [i \in 1..Len(route.targets) |-> weightOr1(route.weights, i)],
              cooledOut |-> TRUE]
        ELSE [targets |-> [i \in 1..Len(idx) |-> route.targets[idx[i]]],
              weights |-> [i \in 1..Len(idx) |-> weightOr1(route.weights, idx[i])],
              cooledOut |-> FALSE]

\* The cooldown map after getRouteCandidates has probed every target of the route
afterGetRouteCandidates(cd, route, model, t) ==
    MapDeleteAll(cd, {targetCooldownKey(model, route.targets[i]) : i \in 1..Len(route.targets)}
                     \cap {k \in DOMAIN cd : cd[k].expiresAt <= t})

----------------------------------------------------------------------------
(* Target choice *)

RECURSIVE SumSeq(_, _)
SumSeq(weights, n) == IF n = 0 THEN 0 ELSE SumSeq(weights, n - 1) + weights[n]

RECURSIVE walkWeights(_, _, _)
\* the index weightedRandom returns for the draw `random`
walkWeights(weights, random, i) ==
    IF i > Len(weights) THEN 1
    ELSE IF random < weights[i] THEN i
    ELSE walkWeights(weights, random - weights[i], i + 1)

\* The targets weightedRandom can return: Math.random() * totalWeight falls in
\* [0, totalWeight); with integer weights the integer draws reach every outcome.
weightedRandom(targets, weights) ==
    LET totalWeight == SumSeq(weights, Len(weights))
        draws == IF totalWeight > 0 THEN 0..(totalWeight - 1) ELSE {0}
        \* a negative total puts the draw in (totalWeight, 0]: halves are counted
        halves == [i \in 1..Len(weights) |-> 2 * weights[i]]
    IN  IF Len(targets) = 0 THEN {}
        ELSE IF totalWeight >= 0
        THEN {targets[walkWeights(weights, random, 1)] : random \in draws}
        ELSE {targets[walkWeights(halves, random, 1)] : random \in (2 * totalWeight + 1)..0}

\* Variant of bestIndex that moves on to a later target of equal weight
RECURSIVE bestIndexLastOfEqual(_, _, _)
bestIndexLastOfEqual(weights, i, bestIdx) ==
    IF i > Len(weights) THEN bestIdx
    ELSE bestIndexLastOfEqual(weights, i + 1,
                              IF weights[i] >= weights[bestIdx] THEN i ELSE bestIdx)

RECURSIVE bestIndex(_, _, _)
bestIndex(weights, i, bestIdx) ==
    IF i > Len(weights) THEN bestIdx
    ELSE bestIndex(weights, i + 1, IF weights[i] > weights[bestIdx] THEN i ELSE bestIdx)
\* Variant of selectHighestWeightTarget that takes the first target
selectFirstTarget(targets, weights) ==
    IF Len(targets) = 0 THEN NoTarget ELSE targets[1]

selectHighestWeightTarget(targets, weights) ==
    IF Len(targets) = 0 THEN NoTarget
    ELSE targets[bestIndex(weights, 2, 1)]

----------------------------------------------------------------------------
(* Sticky map *)

clearStickyTarget(st, key) == IF key = <<>> THEN st ELSE MapDelete(st, key)

RouteHasEntry(route, entry) ==
    \E i \in 1..Len(route.targets) :
        /\ route.targets[i].instance = entry.instance
        /\ route.targets[i].target = entry.target
        /\ route.targets[i].rewrite = entry.rewrite

\* route.targets.find(...): the first target equal to the entry
RouteFind(route, entry) ==
    LET i == CHOOSE i \in 1..Len(route.targets) :
                 /\ route.targets[i].instance = entry.instance
                 /\ route.targets[i].target = entry.target
                 /\ route.targets[i].rewrite = entry.rewrite
                 /\ \A j \in 1..(i - 1) :
                        ~ (/\ route.targets[j].instance = entry.instance
                           /\ route.targets[j].target = entry.target
                           /\ route.targets[j].rewrite = entry.rewrite)
    IN  route.targets[i]
\* Variant of getStickyTarget that honours cooldowns whatever ignoreCooldown says
getStickyTargetHonouringCooldown(st, cd, route, key, model, ignoreCooldown, t) ==
    IF key \notin DOMAIN st
    THEN [target |-> NoTarget, sticky |-> st, cooldowns |-> cd]
    ELSE IF st[key].expiresAt <= t \/ ~RouteHasEntry(route, st[key])
    THEN [target |-> NoTarget, sticky |-> MapDelete(st, key), cooldowns |-> cd]
    ELSE IF isTargetCooling(cd, model, RouteFind(route, st[key]), t)
    THEN [target |-> NoTarget, sticky |-> MapDelete(st, key), cooldowns |-> cd]
    ELSE [target |-> RouteFind(route, st[key]),
          sticky |-> [st EXCEPT ![key].expiresAt = t + STICKY_ROUTE_TTL_MS],
          cooldowns |-> cd]

\* Variant of getStickyTarget that returns a live entry's target without looking
\* for it among the targets of the route
getStickyTargetUnmatched(st, cd, route, key, model, ignoreCooldown, t) ==
    IF key \notin DOMAIN st
    THEN [target |-> NoTarget, sticky |-> st, cooldowns |-> cd]
    ELSE IF st[key].expiresAt <= t
    THEN [target |-> NoTarget, sticky |-> MapDelete(st, key), cooldowns |-> cd]
    ELSE LET matched == [instance |-> st[key].instance, target |-> st[key].target,
                         rewrite |-> st[key].rewrite]
         IN  IF ~ignoreCooldown /\ isTargetCooling(cd, model, matched, t)
             THEN [target |-> NoTarget, sticky |-> MapDelete(st, key), cooldowns |-> cd]
             ELSE [target |-> matched,
                   sticky |-> [st EXCEPT ![key].expiresAt = t + STICKY_ROUTE_TTL_MS],
                   cooldowns |-> IF ignoreCooldown THEN cd
                                 ELSE afterIsTargetCooling(cd, model, matched, t)]

\* Variant of getStickyTarget that returns a live entry's target even if it is cooling
getStickyTargetIgnoringCooldown(st, cd, route, key, model, ignoreCooldown, t) ==
    IF key \notin DOMAIN st
    THEN [target |-> NoTarget, sticky |-> st, cooldowns |-> cd]
    ELSE IF st[key].expiresAt <= t \/ ~RouteHasEntry(route, st[key])
    THEN [target |-> NoTarget, sticky |-> MapDelete(st, key), cooldowns |-> cd]
    ELSE [target |-> RouteFind(route, st[key]),
          sticky |-> [st EXCEPT ![key].expiresAt = t + STICKY_ROUTE_TTL_MS],
          cooldowns |-> cd]

\* getStickyTarget: the target returned (NoTarget for null) and both maps afterwards
getStickyTarget(st, cd, route, key, model, ignoreCooldown, t) ==
    IF key \notin DOMAIN st
    THEN [target |-> NoTarget, sticky |-> st, cooldowns |-> cd]
    ELSE IF st[key].expiresAt <= t
    THEN [target |-> NoTarget, sticky |-> MapDelete(st, key), cooldowns |-> cd]
    ELSE IF ~RouteHasEntry(route, st[key])
    THEN [target |-> NoTarget, sticky |-> MapDelete(st, key), cooldowns |-> cd]
    ELSE LET matched == RouteFind(route, st[key])
         IN  IF ~ignoreCooldown /\ isTargetCooling(cd, model, matched, t)
             THEN [target |-> NoTarget, sticky |-> MapDelete(st, key), cooldowns |-> cd]
             ELSE [target |-> matched,
                   sticky |-> [st EXCEPT ![key].expiresAt = t + STICKY_ROUTE_TTL_MS],
                   cooldowns |-> IF ignoreCooldown THEN cd
                                 ELSE afterIsTargetCooling(cd, model, matched, t)]

\* Math.ceil(MAX_STICKY_KEYS * 0.2)
evictCount == (MAX_STICKY_KEYS + 4) \div 5

\* The sets of keys setStickyTarget can evict: the first evictCount entries of
\* the map sorted by expiresAt.  Entries of equal expiresAt stay in the order of
\* the Map, which the model does not keep, so each choice among them is possible.
evictions(st) ==
    LET n == IF evictCount < Cardinality(DOMAIN st) THEN evictCount
             ELSE Cardinality(DOMAIN st)
        notLater(k) == {j \in DOMAIN st : st[j].expiresAt <= st[k].expiresAt}
        earlier(k) == {j \in DOMAIN st : st[j].expiresAt < st[k].expiresAt}
        sure == {k \in DOMAIN st : Cardinality(notLater(k)) <= n}
        boundary == {k \in (DOMAIN st) \ sure : Cardinality(earlier(k)) < n}
    IN  {sure \cup B : B \in {B \in SUBSET boundary : Cardinality(B) = n - Cardinality(sure)}}

\* Variant of setStickyTarget that inserts without evicting
setStickyTargetNoEviction(st, key, target, t) ==
    {MapSet(st, key, [instance |-> target.instance, target |-> target.target,
                      rewrite |-> target.rewrite,
                      expiresAt |-> t + STICKY_ROUTE_TTL_MS])}

\* The sticky maps setStickyTarget can leave
setStickyTarget(st, key, target, t) ==
    LET entry == [instance |-> target.instance, target |-> target.target,
                  rewrite |-> target.rewrite, expiresAt |-> t + STICKY_ROUTE_TTL_MS]
    IN  IF Cardinality(DOMAIN st) >= MAX_STICKY_KEYS /\ key \notin DOMAIN st
        THEN {MapSet(MapDeleteAll(st, gone), key, entry) : gone \in evictions(st)}
        ELSE {MapSet(st, key, entry)}

----------------------------------------------------------------------------
(* Session keys and model health *)

\* sha1(sessionKey).slice(0, 12); null for no session key
hashSessionKey(sessionKey) == IF sessionKey = "" THEN "" ELSE "sha1:" \o sessionKey

modelHealthKey(sessionKeyHash, sourceModel) ==
    IF sourceModel = "" THEN <<>>
    ELSE <<IF sessionKeyHash = "" THEN "anon" ELSE sessionKeyHash, sourceModel>>

getModelHealth(mh, key, t) ==
    IF key = <<>> \/ key \notin DOMAIN mh
    THEN [failureStreak |-> 0, successStreak |-> 0, updatedAt |-> t]
    ELSE mh[key]

\* an update that counts the outcome without resetting the other streak
updateModelHealthKeepingStreaks(mh, key, isSuccess, t) ==
    IF key = <<>> THEN mh
    ELSE LET current == getModelHealth(mh, key, t)
         IN  MapSet(mh, key,
                    [failureStreak |-> IF isSuccess THEN current.failureStreak
                                       ELSE current.failureStreak + 1,
                     successStreak |-> IF isSuccess THEN current.successStreak + 1
                                       ELSE current.successStreak,
                     updatedAt |-> t])

updateModelHealth(mh, key, isSuccess, t) ==
    IF key = <<>> THEN mh
    ELSE LET current == getModelHealth(mh, key, t)
         IN  MapSet(mh, key,
                    [failureStreak |-> IF isSuccess THEN 0 ELSE current.failureStreak + 1,
                     successStreak |-> IF isSuccess THEN current.successStreak + 1 ELSE 0,
                     updatedAt |-> t])

----------------------------------------------------------------------------
(* Request bodies: the fields of the JSON body the load balancer reads.     *)
(* signature is the signature of the body's thinking block (<<>>: none).    *)

hasThinkingSignature(body) == Len(body.signature) > 0

\* signature.indexOf('#')
RECURSIVE indexOfHash(_, _)
indexOfHash(sig, i) ==
    IF i > Len(sig) THEN 0 ELSE IF sig[i] = "#" THEN i ELSE indexOfHash(sig, i + 1)

\* the fragments before '#', or <<>> (null) when there is no '#' after a prefix
extractThinkingSignatureGroup(body) ==
    LET hashIdx == indexOfHash(body.signature, 1)
    IN  IF hashIdx > 1 THEN SubSeq(body.signature, 1, hashIdx - 1) ELSE <<>>

----------------------------------------------------------------------------
(* Request rewriter and path normalization.  A JSON member is <<>> when it  *)
(* is absent and <<v>> when it is present with value v; a string is the     *)
(* sequence of its pieces, " " being white space and "(" a parenthesis; a   *)
(* path is the sequence of its segments, "/v1/v1/x" being <<"v1","v1","x">>.*)

\* toPositiveInt; null is written 0, which its callers cannot tell from null
toPositiveInt(value) ==
    IF value # <<>> /\ value[1] > 0 THEN value[1] ELSE 0

\* String.prototype.trim
RECURSIVE trim(_)
trim(s) ==
    IF s # <<>> /\ Head(s) = " " THEN trim(Tail(s))
    ELSE IF s # <<>> /\ s[Len(s)] = " " THEN trim(SubSeq(s, 1, Len(s) - 1))
    ELSE s

\* the last block of applyTargetParamsToPayload with > in place of >=
withBudgetUpToMaxTokens(payload) ==
    LET finalMaxTokens == toPositiveInt(payload.max_tokens)
        currentBudget == toPositiveInt(payload.thinking[1].budget_tokens)
    IN  IF finalMaxTokens > 0 /\ payload.thinking # <<>>
           /\ currentBudget > 0 /\ currentBudget > finalMaxTokens
        THEN IF finalMaxTokens <= 1
             THEN [payload EXCEPT !.thinking = <<[budget_tokens |-> <<>>]>>]
             ELSE [payload EXCEPT !.thinking = <<[budget_tokens |-> <<finalMaxTokens - 1>>]>>]
        ELSE payload

\* the last block of applyTargetParamsToPayload: the thinking budget stays
\* below max_tokens
withBudgetBelowMaxTokens(payload) ==
    LET finalMaxTokens == toPositiveInt(payload.max_tokens)
        currentBudget == toPositiveInt(payload.thinking[1].budget_tokens)
    IN  IF finalMaxTokens > 0 /\ payload.thinking # <<>>
           /\ currentBudget > 0 /\ currentBudget >= finalMaxTokens
        THEN IF finalMaxTokens <= 1
             THEN [payload EXCEPT !.thinking = <<[budget_tokens |-> <<>>]>>]
             ELSE [payload EXCEPT !.thinking = <<[budget_tokens |-> <<finalMaxTokens - 1>>]>>]
        ELSE payload

applyTargetParamsToPayload(payload, target) ==
    IF target.params = <<>>
    THEN payload
    ELSE LET params == target.params[1]
             isObject(thinking) == thinking # <<>>
             budgetOf(p) == toPositiveInt(p.thinking[1].budget_tokens)
             \* payload.reasoning_effort = params.reasoning_effort.trim()
             p1 == IF trim(params.reasoning_effort) # <<>>
                   THEN [payload EXCEPT !.reasoning_effort = <<trim(params.reasoning_effort)>>]
                   ELSE payload
             \* the thinking budget is capped by thinking_budget_max
             thinkingBudgetMax == toPositiveInt(params.thinking_budget_max)
             p2 == IF thinkingBudgetMax > 0 /\ isObject(p1.thinking)
                      /\ budgetOf(p1) > 0 /\ budgetOf(p1) > thinkingBudgetMax
                   THEN [p1 EXCEPT !.thinking = <<[budget_tokens |-> <<thinkingBudgetMax>>]>>]
                   ELSE p1
             \* max_tokens is capped, or defaulted: both blocks test initialMaxTokens
             initialMaxTokens == toPositiveInt(p2.max_tokens)
             maxTokensMax == toPositiveInt(params.max_tokens_max)
             maxTokensDefault == toPositiveInt(params.max_tokens_default)
             p3 == IF maxTokensMax > 0 /\ initialMaxTokens > 0 /\ initialMaxTokens > maxTokensMax
                   THEN [p2 EXCEPT !.max_tokens = <<maxTokensMax>>]
                   ELSE p2
             p4 == IF maxTokensDefault > 0 /\ initialMaxTokens = 0
                   THEN [p3 EXCEPT !.max_tokens = <<maxTokensDefault>>]
                   ELSE p3
         IN  withBudgetBelowMaxTokens(p4)

\* cloneRequestPayloadForTarget for a parsed body, _model being the model the
\* handler took from it
cloneRequestPayloadForTarget(_requestBody, target) ==
    LET _model == IF _requestBody.model = <<>> THEN <<>> ELSE _requestBody.model[1]
        base == IF target.rewrite # <<>> /\ target.rewrite # _model
                THEN target.rewrite ELSE _model
        thinkingLevel == IF target.params = <<>> THEN <<>> ELSE target.params[1].thinking_level
        rewrittenModel ==
            IF trim(thinkingLevel) # <<>> /\ ~(\E i \in 1..Len(base) : base[i] = "(")
            THEN base \o <<"(">> \o trim(thinkingLevel) \o <<")">>
            ELSE base
        named == IF _model # <<>>
                 THEN [_requestBody EXCEPT !.model = <<rewrittenModel>>]
                 ELSE _requestBody
        payload == applyTargetParamsToPayload(named, target)
    IN  IF target.provider = "minimax" THEN [payload EXCEPT !.metadata = <<>>] ELSE payload

normalizeProxyPath(urlPath) ==
    IF urlPath = <<>> THEN urlPath
    ELSE IF urlPath = <<"v1", "v1">> THEN <<"v1">>
    ELSE IF Len(urlPath) >= 3 /\ urlPath[1] = "v1" /\ urlPath[2] = "v1"
         THEN <<"v1">> \o SubSeq(urlPath, 3, Len(urlPath))
         ELSE urlPath

\* what the pure steps above are applied to: a path, a parsed body and the
\* target it is rewritten for, with the body as the client sent it and the
\* number of times each step was applied
NothingForwarded ==
    [url |-> <<>>, urlPasses |-> 0,
     body |-> [model |-> <<>>, max_tokens |-> <<>>, thinking |-> <<>>,
               reasoning_effort |-> <<>>, metadata |-> <<>>],
     received |-> [model |-> <<>>, max_tokens |-> <<>>, thinking |-> <<>>,
                   reasoning_effort |-> <<>>, metadata |-> <<>>],
     target |-> [rewrite |-> <<>>, provider |-> "unknown", params |-> <<>>],
     bodyPasses |-> 0]

\* no route has been drawn from
NoPool ==
    [route |-> [targets |-> <<>>, weights |-> <<>>],
     candidates |-> [targets |-> <<>>, weights |-> <<>>, cooledOut |-> FALSE],
     picked |-> NoTarget, draws |-> 0]

----------------------------------------------------------------------------
(* Model router (MODEL_ROUTER_CONFIG as _normalize_lb_model_router_config   *)
(* leaves it: categories and rules sorted by descending priority)           *)

\* One rule, category and condition of lb_model_router as the configuration
\* file gives them.  A signal "type:value" is kept as its parts.
RawRule(name, priority, target_model, match, when) ==
    [name |-> name, priority |-> priority, target_model |-> target_model,
     match |-> match, when |-> when]
RawCategory(name, priority, target_model, signals) ==
    [name |-> name, priority |-> priority, target_model |-> target_model,
     signals |-> signals]
Condition(field, op, value) == [field |-> field, op |-> op, value |-> value]

supported_ops == {"==", "!=", ">", ">=", "<", "<=", "in", "not_in", "contains",
                  "not_contains", "exists", "not_exists", "regex"}

\* the conditions when[1..n] that have a field and a supported op, in order
RECURSIVE keptConditions(_, _)
keptConditions(when, n) ==
    IF n = 0 THEN <<>>
    ELSE IF when[n].field # "" /\ when[n].op \in supported_ops
    THEN Append(keptConditions(when, n - 1), when[n])
    ELSE keptConditions(when, n - 1)

\* the rules raw_rules[1..n] that have a target_model, in order
RECURSIVE keptRules(_, _)
keptRules(raw_rules, n) ==
    IF n = 0 THEN <<>>
    ELSE IF raw_rules[n].target_model # ""
    THEN Append(keptRules(raw_rules, n - 1), raw_rules[n])
    ELSE keptRules(raw_rules, n - 1)

\* the categories raw_categories[1..n] that have a target_model and a signal, in order
RECURSIVE keptCategories(_, _)
keptCategories(raw_categories, n) ==
    IF n = 0 THEN <<>>
    ELSE IF raw_categories[n].target_model # "" /\ Len(raw_categories[n].signals) > 0
    THEN Append(keptCategories(raw_categories, n - 1), raw_categories[n])
    ELSE keptCategories(raw_categories, n - 1)

\* the non-empty names of models[1..n], in order
RECURSIVE keptModels(_, _)
keptModels(models, n) ==
    IF n = 0 THEN <<>>
    ELSE IF models[n] # "" THEN Append(keptModels(models, n - 1), models[n])
    ELSE keptModels(models, n - 1)

\* insert item before every element whose priority is not higher
InsertBeforeEqualPriority(sorted, item) ==
    LET before == {i \in 1..Len(sorted) : sorted[i].priority > item.priority}
        k == Cardinality(before)
    IN  SubSeq(sorted, 1, k) \o <<item>> \o SubSeq(sorted, k + 1, Len(sorted))

\* insert item after every element whose priority is not lower (list.sort is stable)
InsertByPriority(sorted, item) ==
    LET before == {i \in 1..Len(sorted) : sorted[i].priority >= item.priority}
        k == Cardinality(before)
    IN  SubSeq(sorted, 1, k) \o <<item>> \o SubSeq(sorted, k + 1, Len(sorted))

RECURSIVE SortByPriority(_, _)
\* s[1..n] sorted by descending priority
SortByPriority(s, n) ==
    IF n = 0 THEN <<>> ELSE InsertByPriority(SortByPriority(s, n - 1), s[n])

\* the rules kept, with their defaults filled in, in configuration order
named_rules(raw_rules) ==
    LET named == [idx \in 1..Len(raw_rules) |->
                     [raw_rules[idx] EXCEPT
                         !.name = IF @ = "" THEN "rule_" \o ToString(idx) ELSE @,
                         !.match = IF @ \in {"all", "any"} THEN @ ELSE "all",
                         !.when = keptConditions(@, Len(@))]]
    IN  keptRules(named, Len(named))

normalized_rules(raw_rules) ==
    SortByPriority(named_rules(raw_rules), Len(named_rules(raw_rules)))

\* the categories kept, left in configuration order
unsorted_categories(raw_categories) ==
    keptCategories(raw_categories, Len(raw_categories))

normalized_categories(raw_categories) ==
    LET kept == keptCategories(raw_categories, Len(raw_categories))
    IN  SortByPriority(kept, Len(kept))

\* _normalize_lb_model_router_config: what json.dumps writes as MODEL_ROUTER_CONFIG
normalize_lb_model_router_config(base_conf) ==
    [enabled |-> base_conf.enabled,
     shadow_only |-> base_conf.shadow_only,
     activation_models |-> Dedup(keptModels(base_conf.activation_models,
                                            Len(base_conf.activation_models))),
     default_model |-> base_conf.default_model,
     categories |-> normalized_categories(base_conf.categories),
     rules |-> normalized_rules(base_conf.rules)]

\* The settings of the deployment explored by Spec
DefaultRouterConf ==
    [enabled |-> TRUE, shadow_only |-> FALSE,
     activation_models |-> <<"auto">>,
     default_model |-> "fast",
     categories |-> << RawCategory("deep", 10, "slow",
                                   << [type |-> "task_category", value |-> "architecture"] >>) >>,
     rules |-> << RawRule("long", 5, "slow", "all",
                          << Condition("messages_count", ">=", 3) >>) >>]

DefaultConf ==
    [lb_model_router |-> DefaultRouterConf,
     lb_auto_upgrade_enabled |-> TRUE,
     lb_auto_upgrade_signature_enabled |-> FALSE,
     lb_auto_upgrade_failure_streak_threshold |-> 2,
     lb_auto_upgrade_map |-> [fast |-> "slow"],
     lb_transient_cooldown_ms |-> 1]


NumericFactors == {"messages_count", "conversation_depth", "tools_count",
                   "failure_streak", "success_streak"}

buildModelRouterFactors(requested, body, mh, sessionKeyHash, t) ==
    LET health == getModelHealth(mh, modelHealthKey(sessionKeyHash, requested), t)
    IN  [requested_model |-> requested,
         messages_count |-> body.messagesCount,
         conversation_depth |-> body.messagesCount,
         tools_count |-> body.toolsCount,
         has_thinking_signature |-> hasThinkingSignature(body),
         failure_streak |-> health.failureStreak,
         success_streak |-> health.successStreak,
         task_category |-> body.taskCategory]

compareNumbers(op, left, right) ==
    CASE op = ">" -> left > right
      [] op = ">=" -> left >= right
      [] op = "<" -> left < right
      [] op = "<=" -> left <= right
      [] op = "==" -> left = right
      [] op = "!=" -> left # right
      [] OTHER -> FALSE

evaluateModelRouterCondition(condition, factors) ==
    LET hasField == condition.field \in DOMAIN factors
    IN  CASE condition.op \in {">", ">=", "<", "<="} ->
                 /\ condition.field \in NumericFactors
                 /\ hasField
                 /\ compareNumbers(condition.op, factors[condition.field], condition.value)
          [] condition.op = "==" -> hasField /\ factors[condition.field] = condition.value
          [] condition.op = "!=" -> ~hasField \/ factors[condition.field] # condition.value
          [] condition.op = "exists" -> hasField
          [] condition.op = "not_exists" -> ~hasField
          [] OTHER -> FALSE

evaluateModelRouterRule(rule, factors) ==
    IF Len(rule.when) = 0 THEN TRUE
    ELSE IF rule.match = "any"
    THEN \E i \in 1..Len(rule.when) : evaluateModelRouterCondition(rule.when[i], factors)
    ELSE \A i \in 1..Len(rule.when) : evaluateModelRouterCondition(rule.when[i], factors)

evaluateCategorySignal(signal, factors) ==
    CASE signal.type = "task_category" -> factors.task_category = signal.value
      [] signal.type \in {"messages_count", "conversation_depth"} ->
             compareNumbers(signal.op, factors.messages_count, signal.value)
      [] OTHER -> FALSE

\* index of the first category with a matching signal, 0 when none matches
RECURSIVE resolveModelViaCategories(_, _, _)
resolveModelViaCategories(factors, categories, i) ==
    IF i > Len(categories) THEN 0
    ELSE IF \E k \in 1..Len(categories[i].signals) :
                evaluateCategorySignal(categories[i].signals[k], factors)
    THEN i
    ELSE resolveModelViaCategories(factors, categories, i + 1)

\* index of the first rule that has a routed target_model and matches, 0 when none
RECURSIVE firstRuleHit(_, _, _)
firstRuleHit(factors, rules, i) ==
    IF i > Len(rules) THEN 0
    ELSE IF rules[i].target_model # "" /\ HasRoute(rules[i].target_model)
            /\ evaluateModelRouterRule(rules[i], factors)
    THEN i
    ELSE firstRuleHit(factors, rules, i + 1)

\* the default taken without looking it up in ROUTES
defaultModelUnchecked(default_model, requested) ==
    IF default_model = ""
    THEN [suggested_model |-> requested, decision |-> "no_rule"]
    ELSE [suggested_model |-> default_model, decision |-> "default_model"]

\* if (!hitRule): default_model, when set, is suggested if ROUTES has it
defaultModel(default_model, requested) ==
    IF default_model = ""
    THEN [suggested_model |-> requested, decision |-> "no_rule"]
    ELSE IF HasRoute(default_model)
    THEN [suggested_model |-> default_model, decision |-> "default_model"]
    ELSE [suggested_model |-> requested, decision |-> "default_model_not_found"]

\* applied, were shadow mode to act on its suggestion
routerAppliedInShadow(shadowOnly, suggestedModel, requested) == suggestedModel # requested

\* const applied = !shadowOnly && suggestedModel !== requested
routerApplied(shadowOnly, suggestedModel, requested) ==
    ~shadowOnly /\ suggestedModel # requested

resolveModelViaRouter(requested, body, mh, sessionKeyHash, t) ==
    LET config == MODEL_ROUTER_CONFIG IN
    IF ~config.enabled
    THEN [enabled |-> FALSE, activated |-> FALSE, decision |-> "disabled",
          suggested_model |-> requested, resolved_model |-> requested, applied |-> FALSE]
    ELSE IF Len(config.activation_models) > 0
            /\ ~(\E i \in 1..Len(config.activation_models) :
                     config.activation_models[i] = requested)
    THEN [enabled |-> TRUE, activated |-> FALSE, decision |-> "not_activated",
          suggested_model |-> requested, resolved_model |-> requested, applied |-> FALSE]
    ELSE
    LET factors == buildModelRouterFactors(requested, body, mh, sessionKeyHash, t)
        cat == resolveModelViaCategories(factors, config.categories, 1)
        catHit == cat > 0 /\ HasRoute(config.categories[cat].target_model)
        rule == IF catHit THEN 0 ELSE firstRuleHit(factors, config.rules, 1)
        suggestedModel ==
            IF catHit THEN config.categories[cat].target_model
            ELSE IF rule > 0 THEN config.rules[rule].target_model
            ELSE defaultModel(config.default_model, requested).suggested_model
        decision ==
            IF catHit
            THEN "category_hit_" \o (IF config.categories[cat].name = "" THEN "unnamed"
                                    ELSE config.categories[cat].name)
            ELSE IF rule > 0 THEN "rule_hit_" \o config.rules[rule].name
            ELSE defaultModel(config.default_model, requested).decision
        applied == routerApplied(config.shadow_only, suggestedModel, requested)
    IN  [enabled |-> TRUE, activated |-> TRUE, decision |-> decision,
         suggested_model |-> suggestedModel,
         resolved_model |-> IF applied THEN suggestedModel ELSE requested,
         applied |-> applied]

----------------------------------------------------------------------------
(* Auto-upgrade *)

AUTO_UPGRADE_ENABLED == globalConf.lb_auto_upgrade_enabled
AUTO_UPGRADE_SIGNATURE_ENABLED == globalConf.lb_auto_upgrade_signature_enabled
AUTO_UPGRADE_MESSAGES_THRESHOLD == 3
AUTO_UPGRADE_TOOLS_THRESHOLD == 2
\* max(1, lb_auto_upgrade_failure_streak_threshold)
AUTO_UPGRADE_FAILURE_STREAK_THRESHOLD ==
    IF globalConf.lb_auto_upgrade_failure_streak_threshold < 1 THEN 1
    ELSE globalConf.lb_auto_upgrade_failure_streak_threshold

\* the map followed through a second entry when the first leads to one
chainedAutoUpgradeMap(requestModel) ==
    LET raw == globalConf.lb_auto_upgrade_map
        kept == [source \in DOMAIN raw |->
                    IF raw[source] # "" /\ raw[source] # source THEN raw[source] ELSE ""]
    IN  IF requestModel \notin DOMAIN kept THEN ""
        ELSE IF kept[requestModel] \in DOMAIN kept /\ kept[kept[requestModel]] # ""
        THEN kept[kept[requestModel]]
        ELSE kept[requestModel]

\* AUTO_UPGRADE_MODEL_MAP[requestModel], "" when there is no entry; the
\* generator keeps an entry only if source and target are non-empty and differ
AUTO_UPGRADE_MODEL_MAP(requestModel) ==
    LET raw == globalConf.lb_auto_upgrade_map
    IN  IF requestModel \in DOMAIN raw /\ raw[requestModel] # ""
           /\ raw[requestModel] # requestModel
        THEN raw[requestModel] ELSE ""

\* hit = FALSE stands for the null the function returns
resolveAutoUpgradeModel(requestModel, body, mh, sessionKeyHash, t) ==
    LET targetModel == AUTO_UPGRADE_MODEL_MAP(requestModel)
        health == getModelHealth(mh, modelHealthKey(sessionKeyHash, requestModel), t)
        reasons ==
            (IF body.messagesCount >= AUTO_UPGRADE_MESSAGES_THRESHOLD
             THEN {"messages_threshold"} ELSE {})
            \cup (IF body.toolsCount >= AUTO_UPGRADE_TOOLS_THRESHOLD
                  THEN {"tools_threshold"} ELSE {})
            \cup (IF health.failureStreak >= AUTO_UPGRADE_FAILURE_STREAK_THRESHOLD
                  THEN {"failure_streak"} ELSE {})
            \cup (IF AUTO_UPGRADE_SIGNATURE_ENABLED /\ hasThinkingSignature(body)
                  THEN {"thinking_signature"} ELSE {})
    IN  IF ~AUTO_UPGRADE_ENABLED \/ targetModel = "" \/ ~HasRoute(targetModel)
           \/ reasons = {}
        THEN [hit |-> FALSE, sourceModel |-> requestModel, targetModel |-> "", reasons |-> {}]
        ELSE [hit |-> TRUE, sourceModel |-> requestModel, targetModel |-> targetModel,
              reasons |-> reasons]

----------------------------------------------------------------------------
(* Target selection of the request handler *)

\* Variant of crossModelSticky that finds no sticky of the session
crossModelStickyNone(st, cd, sessionKey, t, i) ==
    [found |-> FALSE, model |-> "", target |-> NoTarget, sticky |-> st]

\* The scan over Object.keys(ROUTES) for a sticky of this session (ignoreCooldown)
RECURSIVE crossModelSticky(_, _, _, _, _)
crossModelSticky(st, cd, sessionKey, t, i) ==
    IF i > Len(RouteOrder)
    THEN [found |-> FALSE, model |-> "", target |-> NoTarget, sticky |-> st]
    ELSE LET candidateModel == RouteOrder[i]
             got == getStickyTarget(st, cd, ROUTES[candidateModel],
                                    stickyRouteKey(sessionKey, candidateModel),
                                    candidateModel, TRUE, t)
         IN  IF got.target # NoTarget
             THEN [found |-> TRUE, model |-> candidateModel, target |-> got.target,
                   sticky |-> got.sticky]
             ELSE crossModelSticky(got.sticky, cd, sessionKey, t, i + 1)

Selection(model, selected, stickyKey, decision, st, cd) ==
    [model |-> model, selected |-> selected, stickyKey |-> stickyKey,
     decision |-> decision, sticky |-> st, cooldowns |-> cd]

\* Every outcome of the selection code of the handler for a routed model:
\* the model, target, sticky key and decision it ends with, and the maps afterwards.
selectTarget(st, cd, model, hasSig, sessionKey, decision0, t) ==
    LET route == ROUTES[model]
        cross == IF hasSig /\ sessionKey # ""
                 THEN crossModelSticky(st, cd, sessionKey, t, 1)
                 ELSE [found |-> FALSE, model |-> "", target |-> NoTarget, sticky |-> st]
        key == stickyRouteKey(sessionKey, model)
        candidates == getRouteCandidates(cd, route, model, t)
        cdProbed == afterGetRouteCandidates(cd, route, model, t)
    IN  IF cross.found
        THEN {Selection(cross.model, cross.target, stickyRouteKey(sessionKey, cross.model),
                        "thinking_sticky_cross_model_locked", cross.sticky, cd)}
        ELSE IF hasSig
        THEN IF sessionKey # ""
             THEN LET got == getStickyTarget(cross.sticky, cd, route, key, model, TRUE, t)
                  IN  IF got.target # NoTarget
                      THEN {Selection(model, got.target, key,
                                      "sticky_session_model_thinking_locked", got.sticky, cd)}
                      ELSE {Selection(model,
                                      selectHighestWeightTarget(candidates.targets,
                                                                candidates.weights),
                                      key,
                                      IF candidates.cooledOut
                                      THEN "thinking_primary_locked_all_targets_in_cooldown"
                                      ELSE "thinking_primary_locked",
                                      got.sticky, cdProbed)}
             ELSE {Selection(model,
                             selectHighestWeightTarget(candidates.targets, candidates.weights),
                             <<>>,
                             IF candidates.cooledOut
                             THEN "thinking_primary_locked_no_session_all_targets_in_cooldown"
                             ELSE "thinking_primary_locked_no_session",
                             st, cdProbed)}
        ELSE IF sessionKey # ""
        THEN LET got == getStickyTarget(st, cd, route, key, model, FALSE, t)
                 candidates2 == getRouteCandidates(got.cooldowns, route, model, t)
             IN  IF got.target # NoTarget
                 THEN {Selection(model, got.target, key, "sticky_session_model",
                                 got.sticky, got.cooldowns)}
                 ELSE {Selection(model, target, key,
                                 IF candidates2.cooledOut
                                 THEN "weighted_random_all_targets_in_cooldown"
                                 ELSE "weighted_random",
                                 got.sticky,
                                 afterGetRouteCandidates(got.cooldowns, route, model, t)) :
                       target \in weightedRandom(candidates2.targets, candidates2.weights)}
        ELSE {Selection(model, target, <<>>,
                        IF candidates.cooledOut
                        THEN "weighted_random_no_session_all_targets_in_cooldown"
                        ELSE "weighted_random",
                        st, cdProbed) :
              target \in weightedRandom(candidates.targets, candidates.weights)}

----------------------------------------------------------------------------
(* Retry controller *)
\* Variant of canRetry that also retries a response whose headers have been passed on
canRetryStreamed(isSSE, method, retryCount, maxRetries, retryAuthOn5xx, kind, statusCode, headersSent) ==
    /\ method = "POST"
    /\ retryCount < maxRetries
    /\ kind \in RETRYABLE_ROUTE_ACTIONS
    /\ (kind # "auth" \/ statusCode = 401 \/ statusCode = 403
        \/ (retryAuthOn5xx /\ statusCode >= 500))

\* Variant of canRetry whose budget test is <= instead of <
canRetryOffByOne(isSSE, method, retryCount, maxRetries, retryAuthOn5xx, kind, statusCode, headersSent) ==
    /\ ~isSSE
    /\ method = "POST"
    /\ retryCount <= maxRetries
    /\ kind \in RETRYABLE_ROUTE_ACTIONS
    /\ (kind # "auth" \/ statusCode = 401 \/ statusCode = 403
        \/ (retryAuthOn5xx /\ statusCode >= 500))
    /\ ~headersSent

\* Variant of canRetry that retries an auth failure whatever its status
canRetryAnyAuth(isSSE, method, retryCount, maxRetries, retryAuthOn5xx, kind, statusCode, headersSent) ==
    /\ ~isSSE
    /\ method = "POST"
    /\ retryCount < maxRetries
    /\ kind \in RETRYABLE_ROUTE_ACTIONS
    /\ ~headersSent

canRetry(isSSE, method, retryCount, maxRetries, retryAuthOn5xx, kind, statusCode, headersSent) ==
    /\ ~isSSE
    /\ method = "POST"
    /\ retryCount < maxRetries
    /\ kind \in RETRYABLE_ROUTE_ACTIONS
    /\ (kind # "auth" \/ statusCode = 401 \/ statusCode = 403
        \/ (retryAuthOn5xx /\ statusCode >= 500))
    /\ ~headersSent

\* pickRetryTarget without its two guards: a request without a route is
\* retried on the first alias of the RouteTable
pickRetryTargetOfAnyRoute(rq, cd, t) ==
    IF rq._model = "" \/ ~HasRoute(rq._model)
    THEN weightedRandom(ROUTES[RouteOrder[1]].targets, ROUTES[RouteOrder[1]].weights)
    ELSE LET candidates == getRouteCandidates(cd, ROUTES[rq._model], rq._model, t)
             keep == SelectSeq([i \in 1..Len(candidates.targets) |-> i],
                        LAMBDA i :
                            /\ ~(rq._selectedTarget # NoTarget
                                 /\ targetIdentity(candidates.targets[i])
                                        = targetIdentity(rq._selectedTarget))
                            /\ targetIdentity(candidates.targets[i]) \notin rq._triedTargets)
         IN  weightedRandom([i \in 1..Len(keep) |-> candidates.targets[keep[i]]],
                            [i \in 1..Len(keep) |-> candidates.weights[keep[i]]])

\* The targets pickRetryTarget can return ({} for null)
pickRetryTarget(rq, cd, t) ==
    IF rq._model = "" \/ ~HasRoute(rq._model) THEN {}
    ELSE LET candidates == getRouteCandidates(cd, ROUTES[rq._model], rq._model, t)
             keep == SelectSeq([i \in 1..Len(candidates.targets) |-> i],
                        LAMBDA i :
                            /\ ~(rq._selectedTarget # NoTarget
                                 /\ targetIdentity(candidates.targets[i])
                                        = targetIdentity(rq._selectedTarget))
                            /\ targetIdentity(candidates.targets[i]) \notin rq._triedTargets)
         IN  weightedRandom([i \in 1..Len(keep) |-> candidates.targets[keep[i]]],
                            [i \in 1..Len(keep) |-> candidates.weights[keep[i]]])

afterPickRetryTarget(rq, cd, t) ==
    IF rq._model = "" \/ ~HasRoute(rq._model) THEN cd
    ELSE afterGetRouteCandidates(cd, ROUTES[rq._model], rq._model, t)

\* The loop over SIGNATURE_GROUP_ROUTES[sigGroup]: the first model that yields a target
RECURSIVE signatureRecovery(_, _, _, _)
signatureRecovery(recoveryModels, cd, t, i) ==
    IF i > Len(recoveryModels)
    THEN [found |-> FALSE, model |-> "", target |-> NoTarget, cooldowns |-> cd]
    ELSE LET recoveryModel == recoveryModels[i]
         IN  IF ~HasRoute(recoveryModel)
             THEN signatureRecovery(recoveryModels, cd, t, i + 1)
             ELSE LET candidates == getRouteCandidates(cd, ROUTES[recoveryModel],
                                                       recoveryModel, t)
                      recoveryTarget == selectHighestWeightTarget(candidates.targets,
                                                                  candidates.weights)
                      cd2 == afterGetRouteCandidates(cd, ROUTES[recoveryModel],
                                                     recoveryModel, t)
                  IN  IF recoveryTarget # NoTarget
                      THEN [found |-> TRUE, model |-> recoveryModel,
                            target |-> recoveryTarget, cooldowns |-> cd2]
                      ELSE signatureRecovery(recoveryModels, cd2, t, i + 1)

\* the fragments of a signature group as one string
RECURSIVE joinFragments(_)
joinFragments(group) ==
    IF group = <<>> THEN "" ELSE Head(group) \o joinFragments(Tail(group))
\* Variant of the sticky update that pins the target after any response that
\* does not clear the entry
stickyOnAnyOutcome(st, stickyKey, selectedTarget, routeAction, t) ==
    IF stickyKey = <<>> THEN {st}
    ELSE IF routeAction.clearSticky THEN {clearStickyTarget(st, stickyKey)}
    ELSE IF selectedTarget # NoTarget THEN setStickyTarget(st, stickyKey, selectedTarget, t)
    ELSE {st}

\* The sticky maps the sticky update of the proxyRes 'end' handler can leave
stickyOnClassified(st, stickyKey, selectedTarget, routeAction, t) ==
    IF stickyKey = <<>> THEN {st}
    ELSE IF routeAction.kind = "success"
    THEN IF selectedTarget # NoTarget THEN setStickyTarget(st, stickyKey, selectedTarget, t)
         ELSE {st}
    ELSE IF routeAction.clearSticky THEN {clearStickyTarget(st, stickyKey)}
    ELSE {st}

----------------------------------------------------------------------------
(* Inputs *)

Methods == {"POST", "GET"}
RequestModels == {"auto", "fast", "slow", "nope"}
SessionKeys == {"", "metadata:u1"}
\* a thinking signature as its fragments: none, one without '#', one of the
\* group "claude", one of a group no route serves
Signatures == {<<>>, <<"sig">>, <<"claude", "#", "s">>, <<"zzz", "#", "s">>}

Body(model, signature, messagesCount, toolsCount, taskCategory) ==
    [model |-> model, signature |-> signature, messagesCount |-> messagesCount,
     toolsCount |-> toolsCount, taskCategory |-> taskCategory]

\* every body the handler can be given, up to the bounds of the fields
AllBodies == [model : RequestModels, signature : Signatures, messagesCount : {1, 3},
              toolsCount : {0, 2}, taskCategory : {"unknown", "architecture"}]
\* what a body that is not JSON leaves on req
NoBody == Body("", <<>>, 0, 0, "unknown")

Arrival(body, sessionKey) == [body |-> body, sessionKey |-> sessionKey]

\* The POST requests explored: with and without a session, with and without a
\* thinking signature, to each alias directly, through the router and through
\* auto-upgrade, and to an alias the RouteTable does not have
Arrivals ==
    {Arrival(Body("fast", <<>>, 1, 0, "unknown"), ""),
     Arrival(Body("fast", <<"claude", "#", "s">>, 1, 0, "unknown"), ""),
     Arrival(Body("fast", <<>>, 1, 0, "unknown"), "metadata:u1"),
     Arrival(Body("fast", <<>>, 3, 0, "unknown"), "metadata:u1"),
     Arrival(Body("fast", <<"claude", "#", "s">>, 1, 0, "unknown"), "metadata:u1"),
     Arrival(Body("slow", <<"claude", "#", "s">>, 1, 0, "unknown"), "metadata:u1"),
     Arrival(Body("nope", <<"sig">>, 1, 0, "unknown"), "metadata:u1"),
     Arrival(Body("auto", <<>>, 1, 0, "architecture"), "metadata:u1")}

StatusCodes == {200, 400, 401, 403, 404, 429, 500, 501}
SummaryPhrases == {"validation_required", "insufficient_quota", "auth_unavailable",
                   "signature"}

Response(statusCode, summary) == [status |-> statusCode, summary |-> summary]

\* every response classifyResponse can be given, up to the phrases of a summary
AllResponses == [status : StatusCodes, summary : SUBSET SummaryPhrases]

\* The upstream responses explored: success, a 400 that names the signature (a
\* signature error of a thinking request, a client error of any other), auth
\* errors with each kind of status, a transient error and an unlisted 5xx
Responses ==
    {Response(200, {}),
     Response(400, {"signature"}),
     Response(401, {}),
     Response(429, {"auth_unavailable"}),
     Response(500, {"auth_unavailable"}),
     Response(500, {}),
     Response(501, {})}
\* the statuses an event stream is explored with
StreamStatuses == {200, 401}

----------------------------------------------------------------------------
(* State of one request *)

\* pc: idle (slot unused), forwarding (waiting for the upstream response),
\* streaming (SSE headers passed on, body in flight), done
\* req._modelRouter and req._autoUpgrade before the handler has set them (null)
NoRouter == [enabled |-> FALSE, activated |-> FALSE, decision |-> "",
             suggested_model |-> "", resolved_model |-> "", applied |-> FALSE]
NoUpgrade == [hit |-> FALSE, sourceModel |-> "", targetModel |-> "", reasons |-> {}]

IdleReq ==
    [pc |-> "idle", method |-> "", signature |-> <<>>,
     _requestedModel |-> "", _model |-> "", _resolvedModel |-> "",
     _modelRouter |-> NoRouter, _autoUpgrade |-> NoUpgrade,
     _hasThinkingSignature |-> FALSE, _sessionKeyHash |-> "", _modelHealthKey |-> <<>>,
     _stickyKey |-> <<>>, _selectedTarget |-> NoTarget, _triedTargets |-> {},
     _retryCount |-> 0, _retryTrace |-> <<>>, _signatureRetried |-> FALSE,
     _routingDecision |-> "", _routeAction |-> "", _stickyAction |-> "none",
     _cooldownMsApplied |-> 0, upstreamStatus |-> 0, headersSent |-> FALSE]

\* attempts: one record per proxy.web call; heads: one entry per res.writeHead,
\* naming the attempt whose status and headers were written (0: the load
\* balancer's own 502); bodyFrom: the attempts whose body bytes were written to
\* the client (0: the body of the 502); logs: access-log records written
\* chunks: the chunks of the event stream the callback has buffered; written:
\* the chunks it has passed to res.write, in the order of the calls; clientGone:
\* the client has closed its connection
IdleObs == [attempts |-> <<>>, heads |-> <<>>, bodyFrom |-> {}, ended |-> FALSE,
            logs |-> 0, chunks |-> <<>>, written |-> <<>>, clientGone |-> FALSE]

DefaultOrigin == <<"default", DEFAULT_TARGET>>

Attempt(id, model, via) ==
    [id |-> id, model |-> model, via |-> via, status |-> 0, kind |-> "", sse |-> FALSE,
     retryCount |-> 0, headersSent |-> FALSE, next |-> "pending"]

\* applySelectedTarget + markTriedTarget: req after forwardRequestToTarget
forwardRequestToTarget(rq, target, decision) ==
    [rq EXCEPT !.pc = "forwarding",
               !._selectedTarget = target,
               !._routingDecision = decision,
               !._triedTargets = @ \cup {targetIdentity(target)}]

FreeSlots == {r \in Slots : req[r].pc \in {"idle", "done"}}

\* A new request takes the lowest free slot (slots only name the requests in flight)
CanStart(r) ==
    /\ started < MaxRequests
    /\ r \in FreeSlots
    /\ \A q \in FreeSlots : r <= q

----------------------------------------------------------------------------
(* http.createServer handler *)

\* req.method !== 'POST': forwarded to the default origin as it is
HandleNonPost(r) ==
    /\ CanStart(r)
    /\ started' = started + 1
    /\ req' = [req EXCEPT ![r] = [IdleReq EXCEPT !.pc = "forwarding", !.method = "GET"]]
    /\ obs' = [obs EXCEPT ![r] =
                  [IdleObs EXCEPT !.attempts = <<Attempt(DefaultOrigin, "", "first")>>]]
    /\ UNCHANGED <<now, ticks, MAX_TARGET_RETRIES, RETRY_AUTH_ON_5XX, globalConf, MODEL_ROUTER_CONFIG, forwarded, drawn, stickyRoutes,
                   targetCooldowns, modelHealth, stickyLog, cooldownLog>>

\* POST whose body JSON.parse rejects
HandleUnparseable(r) ==
    /\ CanStart(r)
    /\ started' = started + 1
    /\ req' = [req EXCEPT ![r] = [IdleReq EXCEPT !.pc = "forwarding", !.method = "POST"]]
    /\ obs' = [obs EXCEPT ![r] =
                  [IdleObs EXCEPT !.attempts = <<Attempt(DefaultOrigin, "", "first")>>]]
    /\ UNCHANGED <<now, ticks, MAX_TARGET_RETRIES, RETRY_AUTH_ON_5XX, globalConf, MODEL_ROUTER_CONFIG, forwarded, drawn, stickyRoutes,
                   targetCooldowns, modelHealth, stickyLog, cooldownLog>>

\* req after the handler has parsed the body and resolved the model alias
resolvedRequest(body, sessionKey, mh, t) ==
    LET sessionKeyHash == hashSessionKey(sessionKey)
        modelRouter == resolveModelViaRouter(body.model, body, mh, sessionKeyHash, t)
        routed == IF modelRouter.enabled /\ modelRouter.activated /\ modelRouter.applied
                     /\ modelRouter.resolved_model # ""
                  THEN modelRouter.resolved_model ELSE body.model
        autoUpgrade == resolveAutoUpgradeModel(routed, body, mh, sessionKeyHash, t)
        model == IF autoUpgrade.hit THEN autoUpgrade.targetModel ELSE routed
        routingDecision ==
            IF autoUpgrade.hit
            THEN "auto_upgrade_" \o autoUpgrade.sourceModel \o "_to_" \o autoUpgrade.targetModel
            ELSE IF modelRouter.enabled /\ modelRouter.activated
            THEN "model_router_" \o modelRouter.decision
            ELSE "weighted_random"
    IN  [IdleReq EXCEPT !.method = "POST",
                        !.signature = body.signature,
                        !._requestedModel = body.model,
                        !._model = model,
                        !._resolvedModel = model,
                        !._modelRouter = modelRouter,
                        !._autoUpgrade = IF autoUpgrade.hit THEN autoUpgrade ELSE NoUpgrade,
                        !._hasThinkingSignature = hasThinkingSignature(body),
                        !._sessionKeyHash = sessionKeyHash,
                        !._modelHealthKey = modelHealthKey(sessionKeyHash, body.model),
                        !._routingDecision = routingDecision]

\* POST with a JSON body
HandlePost(r, body, sessionKey) ==
    /\ CanStart(r)
    /\ started' = started + 1
    /\ \E rq \in {resolvedRequest(body, sessionKey, modelHealth, now)} :
           IF ~HasRoute(rq._model)
           THEN /\ req' = [req EXCEPT ![r] =
                              [rq EXCEPT !.pc = "forwarding",
                                         !._routingDecision = "default_target"]]
                /\ obs' = [obs EXCEPT ![r] =
                              [IdleObs EXCEPT !.attempts =
                                  <<Attempt(DefaultOrigin, rq._model, "first")>>]]
                /\ UNCHANGED <<stickyRoutes, targetCooldowns>>
           ELSE \E sel \in selectTarget(stickyRoutes, targetCooldowns, rq._model,
                                        rq._hasThinkingSignature, sessionKey,
                                        rq._routingDecision, now) :
                    /\ stickyRoutes' = sel.sticky
                    /\ targetCooldowns' = sel.cooldowns
                    /\ IF sel.selected = NoTarget
                       THEN /\ req' = [req EXCEPT ![r] =
                                          [rq EXCEPT !.pc = "forwarding",
                                                     !._model = sel.model,
                                                     !._resolvedModel = sel.model,
                                                     !._stickyKey = sel.stickyKey,
                                                     !._routingDecision =
                                                         "default_target_no_selected"]]
                            /\ obs' = [obs EXCEPT ![r] =
                                          [IdleObs EXCEPT !.attempts =
                                              <<Attempt(DefaultOrigin, sel.model, "first")>>]]
                       ELSE /\ req' = [req EXCEPT ![r] =
                                          forwardRequestToTarget(
                                              [rq EXCEPT !._model = sel.model,
                                                         !._resolvedModel = sel.model,
                                                         !._stickyKey = sel.stickyKey],
                                              sel.selected, sel.decision)]
                            /\ obs' = [obs EXCEPT ![r] =
                                          [IdleObs EXCEPT !.attempts =
                                              <<Attempt(targetIdentity(sel.selected),
                                                        sel.model, "first")>>]]
    /\ UNCHANGED <<now, ticks, MAX_TARGET_RETRIES, RETRY_AUTH_ON_5XX, globalConf, MODEL_ROUTER_CONFIG, forwarded, drawn, modelHealth,
                   stickyLog, cooldownLog>>

----------------------------------------------------------------------------
(* proxy.on('proxyRes') and proxy.on('error') *)

LastAttempt(o) == Len(o.attempts)

\* CloseAttempt with a proxy-level failure followed by another attempt
CloseAttemptRetryingFailure(o, statusCode, kind, isSSE, rq, next) ==
    LET closed == [o EXCEPT !.attempts[Len(o.attempts)] =
                      [@ EXCEPT !.status = statusCode, !.kind = kind, !.sse = isSSE,
                                !.retryCount = rq._retryCount,
                                !.headersSent = rq.headersSent, !.next = next]]
    IN  IF next = "error"
        THEN [closed EXCEPT !.attempts = Append(@, Attempt(DefaultOrigin, rq._model, "retry"))]
        ELSE closed

\* The observation after the attempt in flight has ended the way `next` says
CloseAttempt(o, statusCode, kind, isSSE, rq, next) ==
    [o EXCEPT !.attempts[Len(o.attempts)] =
        [@ EXCEPT !.status = statusCode, !.kind = kind, !.sse = isSSE,
                  !.retryCount = rq._retryCount, !.headersSent = rq.headersSent,
                  !.next = next]]

\* Upstream headers with content-type text/event-stream: passed on at once
ProxyResSSE(r, statusCode) ==
    /\ req[r].pc = "forwarding"
    /\ req' = [req EXCEPT ![r].pc = "streaming",
                          ![r].upstreamStatus = statusCode,
                          ![r].headersSent = TRUE]
    /\ obs' = [obs EXCEPT ![r].heads = Append(@, LastAttempt(obs[r]))]
    /\ UNCHANGED <<now, ticks, started, MAX_TARGET_RETRIES, RETRY_AUTH_ON_5XX, globalConf, MODEL_ROUTER_CONFIG, forwarded, drawn,
                   stickyRoutes, targetCooldowns, modelHealth, stickyLog, cooldownLog>>

\* proxyRes 'data' of an SSE response: the chunk is written to the client
ProxyResData(r, chunk) ==
    /\ req[r].pc = "streaming"
    /\ obs' = [obs EXCEPT ![r].chunks = Append(@, chunk),
                          ![r].written = Append(@, chunk),
                          ![r].bodyFrom = @ \cup {LastAttempt(obs[r])}]
    /\ UNCHANGED <<now, ticks, started, MAX_TARGET_RETRIES, RETRY_AUTH_ON_5XX, globalConf, MODEL_ROUTER_CONFIG, forwarded, drawn,
                   stickyRoutes, targetCooldowns, modelHealth, req, stickyLog, cooldownLog>>

\* proxyRes 'end': classification, state updates, then retry, recovery or delivery.
\* statusCode, summary: the upstream response (the status of an SSE response was
\* fixed when its headers arrived).
\* signature recovery, were it to ignore the headers already written
canRecoverSignatureStreamed(kind, headersSent, signatureRetried, sigGroup) ==
    kind = "signature" /\ ~signatureRetried /\ sigGroup # <<>>

\* routeAction.kind === 'signature' && !res.headersSent && !req._signatureRetried,
\* with a signature group in the request body
canRecoverSignature(kind, headersSent, signatureRetried, sigGroup) ==
    kind = "signature" /\ ~headersSent /\ ~signatureRetried /\ sigGroup # <<>>

ProxyResEnd(r, statusCode, summary) ==
    /\ req[r].pc \in {"forwarding", "streaming"}
    /\ req[r].pc = "streaming" => statusCode = req[r].upstreamStatus
    /\ \E rq \in {req[r]}, isSSE \in {req[r].pc = "streaming"},
          routeAction \in {classifyResponse(statusCode, summary,
                                            req[r]._hasThinkingSignature)},
          sigGroup \in {extractThinkingSignatureGroup(req[r])} :
       \E setsCooldown \in {routeAction.cooldownMs > 0 /\ rq._selectedTarget # NoTarget
                              /\ rq._model # ""},
          retriable \in {canRetry(isSSE, rq.method, rq._retryCount, MAX_TARGET_RETRIES,
                                  RETRY_AUTH_ON_5XX, routeAction.kind, statusCode,
                                  rq.headersSent)} :
       \E st1 \in stickyOnClassified(stickyRoutes, rq._stickyKey, rq._selectedTarget,
                                      routeAction, now),
          cd1 \in {IF setsCooldown
                   THEN setTargetCooldown(targetCooldowns, rq._model, rq._selectedTarget,
                                          routeAction.cooldownMs, now)
                   ELSE targetCooldowns},
          rq1 \in {[rq EXCEPT !._routeAction = routeAction.kind,
                              !._cooldownMsApplied =
                                  IF setsCooldown THEN routeAction.cooldownMs ELSE 0,
                              !._stickyAction =
                                  IF rq._stickyKey = <<>> THEN "none"
                                  ELSE IF routeAction.kind = "success"
                                  THEN (IF rq._selectedTarget # NoTarget
                                        THEN "set_on_success" ELSE "none")
                                  ELSE IF routeAction.clearSticky THEN "clear_on_error"
                                  ELSE "none"]} :
       \E retryTargets \in {IF retriable THEN pickRetryTarget(rq, cd1, now) ELSE {}},
          cd2 \in {IF retriable THEN afterPickRetryTarget(rq, cd1, now) ELSE cd1} :
       \E recovery \in {IF canRecoverSignature(routeAction.kind, rq.headersSent,
                                                rq._signatureRetried, sigGroup)
                         THEN signatureRecovery(SIGNATURE_GROUP_ROUTES(sigGroup), cd2, now, 1)
                         ELSE [found |-> FALSE, model |-> "", target |-> NoTarget,
                               cooldowns |-> cd2]} :
           /\ stickyRoutes' = st1
           /\ stickyLog' =
                  IF rq._stickyKey = <<>> THEN stickyLog
                  ELSE IF routeAction.kind = "success"
                  THEN MapSet(stickyLog, rq._stickyKey, "success")
                  ELSE IF routeAction.clearSticky
                  THEN MapSet(stickyLog, rq._stickyKey, "clear")
                  ELSE stickyLog
           /\ cooldownLog' =
                  IF setsCooldown
                  THEN MapSet(cooldownLog, targetCooldownKey(rq._model, rq._selectedTarget),
                              [at |-> now, cooldownMs |-> routeAction.cooldownMs,
                               kind |-> routeAction.kind])
                  ELSE cooldownLog
           /\ \/ \* ordinary retry on another target of the same model
                 \E retryTarget \in retryTargets :
                    /\ req' = [req EXCEPT ![r] =
                                  forwardRequestToTarget(
                                      [rq1 EXCEPT !._retryTrace =
                                                      Append(@, [type |-> "retry",
                                                                 from |-> targetIdentity(rq._selectedTarget),
                                                                 status_code |-> statusCode,
                                                                 route_action |-> routeAction.kind,
                                                                 sig_group |-> <<>>]),
                                                  !._retryCount = @ + 1],
                                      retryTarget, "retry_on_" \o routeAction.kind)]
                    /\ obs' = [obs EXCEPT ![r] =
                                  [CloseAttempt(obs[r], statusCode, routeAction.kind, isSSE,
                                                rq, "retry")
                                   EXCEPT !.attempts =
                                       Append(@, Attempt(targetIdentity(retryTarget),
                                                         rq._model, "retry"))]]
                    /\ targetCooldowns' = cd2
                    /\ UNCHANGED modelHealth
              \/ \* signature recovery
                 /\ retryTargets = {}
                 /\ recovery.found
                 /\ req' = [req EXCEPT ![r] =
                               forwardRequestToTarget(
                                   [rq1 EXCEPT !._signatureRetried = TRUE,
                                               !._model = recovery.model,
                                               !._resolvedModel = recovery.model,
                                               !._retryTrace =
                                                   Append(@, [type |-> "signature",
                                                              from |-> targetIdentity(rq._selectedTarget),
                                                              status_code |-> statusCode,
                                                              route_action |-> routeAction.kind,
                                                              sig_group |-> sigGroup])],
                                   recovery.target,
                                   "retry_on_signature_group_" \o joinFragments(sigGroup))]
                 /\ obs' = [obs EXCEPT ![r] =
                               [CloseAttempt(obs[r], statusCode, routeAction.kind, isSSE,
                                             rq, "signature")
                                EXCEPT !.attempts =
                                    Append(@, Attempt(targetIdentity(recovery.target),
                                                      recovery.model, "signature"))]]
                 /\ targetCooldowns' = recovery.cooldowns
                 /\ UNCHANGED modelHealth
              \/ \* final response: health update, delivery, access log
                 /\ retryTargets = {}
                 /\ ~recovery.found
                 /\ modelHealth' = updateModelHealth(modelHealth, rq._modelHealthKey,
                                                     routeAction.kind = "success", now)
                 /\ req' = [req EXCEPT ![r] = [rq1 EXCEPT !.pc = "done",
                                                          !.headersSent = TRUE]]
                 /\ obs' = [obs EXCEPT ![r] =
                               [CloseAttempt(obs[r], statusCode, routeAction.kind, isSSE,
                                             rq, "final")
                                EXCEPT !.heads =
                                           IF ~isSSE /\ ~rq.headersSent
                                           THEN Append(@, LastAttempt(obs[r])) ELSE @,
                                       !.bodyFrom =
                                           IF isSSE THEN @ ELSE @ \cup {LastAttempt(obs[r])},
                                       !.ended = TRUE,
                                       !.logs = @ + 1]]
                 /\ targetCooldowns' = recovery.cooldowns
    /\ UNCHANGED <<now, ticks, started, MAX_TARGET_RETRIES, RETRY_AUTH_ON_5XX, globalConf, MODEL_ROUTER_CONFIG, forwarded, drawn>>

\* proxy 'error': the attempt failed without an upstream response being completed
\* the 502 written whether or not headers have gone out
proxyErrorReplyAlways(o, headersSent) ==
    [o EXCEPT !.heads = Append(@, 0), !.bodyFrom = @ \cup {0}, !.ended = TRUE]

\* if (res && res.writeHead && !res.headersSent): writeHead(502) and
\* end({error: 'Proxy Error', details})
proxyErrorReply(o, headersSent) ==
    IF ~headersSent
    THEN [o EXCEPT !.heads = Append(@, 0), !.bodyFrom = @ \cup {0}, !.ended = TRUE]
    ELSE o

ProxyError(r) ==
    /\ req[r].pc \in {"forwarding", "streaming"}
    /\ req' = [req EXCEPT ![r].pc = "done", ![r].headersSent = TRUE]
    /\ obs' = [obs EXCEPT ![r] =
                  proxyErrorReply(CloseAttempt(obs[r], 0, "", req[r].pc = "streaming",
                                               req[r], "error"),
                                  req[r].headersSent)]
    /\ UNCHANGED <<now, ticks, started, MAX_TARGET_RETRIES, RETRY_AUTH_ON_5XX, globalConf, MODEL_ROUTER_CONFIG, forwarded, drawn,
                   stickyRoutes, targetCooldowns, modelHealth, stickyLog, cooldownLog>>

----------------------------------------------------------------------------
(* Time and the periodic sweepers *)

\* proxyTimeout of createProxyServer: an attempt whose upstream stays silent for
\* this long ends with a proxy error, so no longer step passes while one is in flight
PROXY_TIMEOUT_MS == 5

InFlight == {r \in Slots : req[r].pc \in {"forwarding", "streaming"}}

Tick(step) ==
    /\ ticks < MaxTicks
    /\ step > PROXY_TIMEOUT_MS => InFlight = {}
    /\ ticks' = ticks + 1
    /\ now' = now + step
    /\ UNCHANGED <<started, MAX_TARGET_RETRIES, RETRY_AUTH_ON_5XX, globalConf, MODEL_ROUTER_CONFIG, forwarded, drawn, stickyRoutes,
                   targetCooldowns, modelHealth, req, obs, stickyLog, cooldownLog>>

\* setInterval(..., STICKY_CLEANUP_MS)
StickySweep ==
    /\ \E k \in DOMAIN stickyRoutes : stickyRoutes[k].expiresAt <= now
    /\ stickyRoutes' = MapDeleteAll(stickyRoutes,
                           {k \in DOMAIN stickyRoutes : stickyRoutes[k].expiresAt <= now})
    /\ UNCHANGED <<now, ticks, started, MAX_TARGET_RETRIES, RETRY_AUTH_ON_5XX, globalConf, MODEL_ROUTER_CONFIG, forwarded, drawn,
                   targetCooldowns, modelHealth, req, obs, stickyLog, cooldownLog>>

\* setInterval(..., TARGET_COOLDOWN_CLEANUP_MS)
CooldownSweep ==
    /\ \E k \in DOMAIN targetCooldowns : targetCooldowns[k].expiresAt <= now
    /\ targetCooldowns' = MapDeleteAll(targetCooldowns,
                              {k \in DOMAIN targetCooldowns :
                                  targetCooldowns[k].expiresAt <= now})
    /\ UNCHANGED <<now, ticks, started, MAX_TARGET_RETRIES, RETRY_AUTH_ON_5XX, globalConf, MODEL_ROUTER_CONFIG, forwarded, drawn,
                   stickyRoutes, modelHealth, req, obs, stickyLog, cooldownLog>>

\* setInterval(cleanupModelHealth, MODEL_HEALTH_CLEANUP_MS)
cleanupModelHealth ==
    /\ \E k \in DOMAIN modelHealth : modelHealth[k].updatedAt + MODEL_HEALTH_TTL_MS <= now
    /\ modelHealth' = MapDeleteAll(modelHealth,
                          {k \in DOMAIN modelHealth :
                              modelHealth[k].updatedAt + MODEL_HEALTH_TTL_MS <= now})
    /\ UNCHANGED <<now, ticks, started, MAX_TARGET_RETRIES, RETRY_AUTH_ON_5XX, globalConf, MODEL_ROUTER_CONFIG, forwarded, drawn,
                   stickyRoutes, targetCooldowns, req, obs, stickyLog, cooldownLog>>

----------------------------------------------------------------------------
(* Specification *)

Init ==
    /\ now = 0
    /\ ticks = 0
    /\ started = 0
    /\ MAX_TARGET_RETRIES \in 0..MaxRetriesConfig
    /\ RETRY_AUTH_ON_5XX \in BOOLEAN
    /\ globalConf = DefaultConf
    /\ MODEL_ROUTER_CONFIG = normalize_lb_model_router_config(globalConf.lb_model_router)
    /\ forwarded = NothingForwarded
    /\ drawn = NoPool
    /\ stickyRoutes = EmptyMap
    /\ targetCooldowns = EmptyMap
    /\ modelHealth = EmptyMap
    /\ req = [r \in Slots |-> IdleReq]
    /\ obs = [r \in Slots |-> IdleObs]
    /\ stickyLog = EmptyMap
    /\ cooldownLog = EmptyMap

Next ==
    \/ \E r \in SerialSlots : HandleNonPost(r)
    \/ \E r \in SerialSlots : HandleUnparseable(r)
    \/ \E r \in SerialSlots, arrival \in Arrivals :
           HandlePost(r, arrival.body, arrival.sessionKey)
    \/ \E r \in SerialSlots, statusCode \in StreamStatuses : ProxyResSSE(r, statusCode)
    \/ \E r \in SerialSlots : obs[r].chunks = <<>> /\ ProxyResData(r, "data: a")
    \/ \E r \in SerialSlots, response \in Responses :
           ProxyResEnd(r, response.status, response.summary)
    \/ \E r \in SerialSlots : ProxyError(r)
    \/ \E step \in TickSteps : Tick(step)
    \/ StickySweep
    \/ CooldownSweep
    \/ cleanupModelHealth

Spec == Init /\ [][Next]_vars

\* The requests and responses explored when requests overlap: one alias, with
\* and without a session, with and without a thinking signature
ConcurrentArrivals ==
    {Arrival(Body("fast", <<>>, 1, 0, "unknown"), ""),
     Arrival(Body("fast", <<>>, 1, 0, "unknown"), "metadata:u1"),
     Arrival(Body("fast", <<"claude", "#", "s">>, 1, 0, "unknown"), "metadata:u1")}
ConcurrentResponses ==
    {Response(200, {}), Response(400, {"signature"}), Response(401, {}), Response(500, {})}

\* Node runs one callback at a time, so requests in flight together interleave
\* at the granularity of whole handlers
NextConcurrent ==
    \/ \E r \in Slots : HandleNonPost(r)
    \/ \E r \in Slots : HandleUnparseable(r)
    \/ \E r \in Slots, arrival \in ConcurrentArrivals :
           HandlePost(r, arrival.body, arrival.sessionKey)
    \/ \E r \in Slots : ProxyResSSE(r, 200)
    \/ \E r \in Slots : obs[r].chunks = <<>> /\ ProxyResData(r, "data: a")
    \/ \E r \in Slots, response \in ConcurrentResponses :
           ProxyResEnd(r, response.status, response.summary)
    \/ \E r \in Slots : ProxyError(r)
    \/ \E step \in TickSteps : Tick(step)
    \/ StickySweep
    \/ CooldownSweep
    \/ cleanupModelHealth

SpecConcurrent == Init /\ [][NextConcurrent]_vars

----------------------------------------------------------------------------
(* Event streams of several chunks *)

MaxChunks == 3

\* the chunks an upstream may send
Chunks == {"data: a", "data: b"}

\* a plain request and a thinking one whose signature group has a recovery route
StreamArrivals ==
    {Arrival(Body("fast", <<>>, 1, 0, "unknown"), "metadata:u1"),
     Arrival(Body("fast", <<"claude", "#", "s">>, 1, 0, "unknown"), "metadata:u1")}

\* answers that would be retried or recovered were they not event streams
StreamResponses ==
    {Response(200, {}), Response(401, {}), Response(400, {"signature"}), Response(500, {})}

NextStream ==
    \/ \E r \in SerialSlots, arrival \in StreamArrivals :
           HandlePost(r, arrival.body, arrival.sessionKey)
    \/ \E r \in SerialSlots, response \in StreamResponses : ProxyResSSE(r, response.status)
    \/ \E r \in SerialSlots, chunk \in Chunks :
           Len(obs[r].chunks) < MaxChunks /\ ProxyResData(r, chunk)
    \/ \E r \in SerialSlots, response \in StreamResponses :
           ProxyResEnd(r, response.status, response.summary)
    \/ \E r \in SerialSlots : ProxyError(r)

SpecStream == Init /\ [][NextStream]_vars

----------------------------------------------------------------------------
(* Clients that disconnect *)

\* The client closes its connection while an attempt is in flight.  The server
\* registers no listener for it: req, res and the callbacks of the attempt stay
\* as they are.
ClientDisconnect(r) ==
    /\ req[r].pc \in {"forwarding", "streaming"}
    /\ ~obs[r].clientGone
    /\ obs' = [obs EXCEPT ![r].clientGone = TRUE]
    /\ UNCHANGED <<now, ticks, started, MAX_TARGET_RETRIES, RETRY_AUTH_ON_5XX, globalConf,
                   MODEL_ROUTER_CONFIG, forwarded, drawn, stickyRoutes, targetCooldowns, modelHealth, req,
                   stickyLog, cooldownLog>>

\* After the disconnect the proxy may drop the upstream request without calling
\* back: neither 'proxyRes' end nor 'error' runs for the attempt.  (When it does
\* call back, the callbacks run as for any other attempt.)
UpstreamAborted(r) ==
    /\ req[r].pc \in {"forwarding", "streaming"}
    /\ obs[r].clientGone
    /\ req' = [req EXCEPT ![r].pc = "done"]
    /\ obs' = [obs EXCEPT ![r] =
                  CloseAttempt(obs[r], 0, "", req[r].pc = "streaming", req[r], "aborted")]
    /\ UNCHANGED <<now, ticks, started, MAX_TARGET_RETRIES, RETRY_AUTH_ON_5XX, globalConf,
                   MODEL_ROUTER_CONFIG, forwarded, drawn, stickyRoutes, targetCooldowns, modelHealth,
                   stickyLog, cooldownLog>>

NextDisconnect ==
    \/ \E r \in SerialSlots, arrival \in StreamArrivals :
           HandlePost(r, arrival.body, arrival.sessionKey)
    \/ \E r \in SerialSlots : ProxyResSSE(r, 200)
    \/ \E r \in SerialSlots : obs[r].chunks = <<>> /\ ProxyResData(r, "data: a")
    \/ \E r \in SerialSlots, response \in StreamResponses :
           ProxyResEnd(r, response.status, response.summary)
    \/ \E r \in SerialSlots : ProxyError(r)
    \/ \E r \in SerialSlots : ClientDisconnect(r)
    \/ \E r \in SerialSlots : UpstreamAborted(r)

SpecDisconnect == Init /\ [][NextDisconnect]_vars

----------------------------------------------------------------------------
(* The deployments and requests explored for model routing and auto-upgrade *)

\* lb_model_router sections: the default one; disabled; shadow mode; every alias
\* activated with categories and rules given out of priority order; a category
\* and a rule whose target the RouteTable lacks; no category; nothing that can
\* hit, with a default the RouteTable has, lacks, or with none; a rule whose
\* conditions all lack a field or a supported operator
RouterConfs ==
    LET
        ArchitectureSignal == [type |-> "task_category", value |-> "architecture"]
        LongSignal == [type |-> "messages_count", op |-> ">=", value |-> 3]
        NeverSignal == [type |-> "unsupported", value |-> "never"]
        RuleLong == RawRule("long", 5, "slow", "all", << Condition("messages_count", ">=", 3) >>)
        RuleBusy == RawRule("busy", 5, "fast", "any",
                            << Condition("tools_count", ">=", 2),
                               Condition("messages_count", ">=", 3) >>)
        RuleBoth == RawRule("", 7, "slow", "every",
                            << Condition("tools_count", ">=", 2),
                               Condition("messages_count", ">=", 3),
                               Condition("", "==", 0),
                               Condition("tools_count", "between", 0) >>)
        RuleGhost == RawRule("ghost", 9, "nope", "all", <<>>)
        RuleUntargeted == RawRule("untargeted", 9, "", "all", <<>>)
        RuleAlways == RawRule("always", 1, "fast", "all", <<>>)
        RuleUnusable == RawRule("unusable", 3, "slow", "any",
                                << Condition("", "==", 0),
                                   Condition("tools_count", "between", 0) >>)
        RouterConf(enabled, shadow_only, activation_models, default_model, categories, rules) ==
            [enabled |-> enabled, shadow_only |-> shadow_only,
             activation_models |-> activation_models, default_model |-> default_model,
             categories |-> categories, rules |-> rules]
    IN
    {DefaultRouterConf,
     [DefaultRouterConf EXCEPT !.enabled = FALSE],
     [DefaultRouterConf EXCEPT !.shadow_only = TRUE],
     RouterConf(TRUE, FALSE, <<>>, "",
                << RawCategory("quick", 1, "fast", <<NeverSignal, ArchitectureSignal>>),
                   RawCategory("deep", 10, "slow", <<ArchitectureSignal>>),
                   RawCategory("empty", 20, "fast", <<>>) >>,
                <<RuleAlways, RuleLong, RuleBusy, RuleBoth>>),
     RouterConf(TRUE, FALSE, <<"", "auto", "fast", "auto">>, "nope",
                << RawCategory("ghost", 10, "nope", <<ArchitectureSignal>>),
                   RawCategory("deep", 5, "slow", <<ArchitectureSignal, LongSignal>>) >>,
                <<RuleBusy, RuleLong, RuleGhost, RuleUntargeted>>),
     RouterConf(TRUE, FALSE, <<>>, "slow", <<>>, <<RuleGhost, RuleBoth>>),
     RouterConf(TRUE, FALSE, <<>>, "", <<>>, <<RuleGhost>>),
     RouterConf(TRUE, FALSE, <<>>, "", <<>>, <<RuleUnusable>>),
     RouterConf(TRUE, TRUE, <<"auto", "slow">>, "nope", <<>>, <<RuleLong>>)}

\* lb_auto_upgrade_* settings: the default ones; disabled; with the signature
\* trigger, a streak threshold of one and a map that could chain; a map to an
\* alias the RouteTable lacks
AutoUpgradeConfs ==
    {[enabled |-> TRUE, signature_enabled |-> FALSE, failure_streak_threshold |-> 2,
      map |-> [fast |-> "slow"]],
     [enabled |-> FALSE, signature_enabled |-> TRUE, failure_streak_threshold |-> 1,
      map |-> [fast |-> "slow"]],
     [enabled |-> TRUE, signature_enabled |-> TRUE, failure_streak_threshold |-> 0,
      map |-> [fast |-> "slow", slow |-> "fast", auto |-> "auto"]],
     [enabled |-> TRUE, signature_enabled |-> FALSE, failure_streak_threshold |-> 1,
      map |-> [fast |-> "nope", slow |-> ""]]}

GlobalConfs ==
    {[lb_model_router |-> router,
      lb_auto_upgrade_enabled |-> upgrade.enabled,
      lb_auto_upgrade_signature_enabled |-> upgrade.signature_enabled,
      lb_auto_upgrade_failure_streak_threshold |-> upgrade.failure_streak_threshold,
      lb_auto_upgrade_map |-> upgrade.map,
      lb_transient_cooldown_ms |-> DefaultConf.lb_transient_cooldown_ms] :
        router \in RouterConfs, upgrade \in AutoUpgradeConfs}

\* the bodies explored: each alias, few and many messages and tools, with and
\* without a task the classifier calls architecture, with and without a thinking
\* signature
RouterArrivals ==
    {Arrival(Body(model, signature, messagesCount, toolsCount, taskCategory), "metadata:u1") :
        model \in {"auto", "fast", "slow"}, signature \in {<<>>, <<"claude", "#", "s">>},
        messagesCount \in {1, 3}, toolsCount \in {0, 2},
        taskCategory \in {"unknown", "architecture"}}

\* success, an unlisted failure, and a rate limit that names the quota
RouterResponses ==
    {Response(200, {}), Response(500, {}), Response(429, {"insufficient_quota"})}

InitRouter ==
    /\ now = 0
    /\ ticks = 0
    /\ started = 0
    /\ MAX_TARGET_RETRIES = 0
    /\ RETRY_AUTH_ON_5XX = TRUE
    /\ globalConf \in GlobalConfs
    /\ MODEL_ROUTER_CONFIG = normalize_lb_model_router_config(globalConf.lb_model_router)
    /\ forwarded = NothingForwarded
    /\ drawn = NoPool
    /\ stickyRoutes = EmptyMap
    /\ targetCooldowns = EmptyMap
    /\ modelHealth = EmptyMap
    /\ req = [r \in Slots |-> IdleReq]
    /\ obs = [r \in Slots |-> IdleObs]
    /\ stickyLog = EmptyMap
    /\ cooldownLog = EmptyMap

NextRouter ==
    \/ \E r \in SerialSlots, arrival \in RouterArrivals :
           HandlePost(r, arrival.body, arrival.sessionKey)
    \/ \E r \in SerialSlots, response \in RouterResponses :
           ProxyResEnd(r, response.status, response.summary)

SpecRouter == InitRouter /\ [][NextRouter]_vars

----------------------------------------------------------------------------
(* Properties of the response path *)

Range(seq) == {seq[i] : i \in 1..Len(seq)}

AttemptIdx(r) == 1..Len(obs[r].attempts)

\* the attempts of request r that were ordinary retries
OrdinaryRetries(r) == {i \in AttemptIdx(r) : obs[r].attempts[i].via = "retry"}

\* C1: for every client request the response headers are written to the client
\* at most once and the body of at most one attempt is delivered (headers and
\* body come from the same attempt); the response of an attempt that was
\* retried or signature-recovered is never written to the client.
OneResponsePerRequest ==
    \A r \in Slots :
        /\ Len(obs[r].heads) <= 1
        /\ Cardinality(obs[r].bodyFrom) <= 1
        /\ \A h \in Range(obs[r].heads) : \A b \in obs[r].bodyFrom : h = b
        /\ \A i \in AttemptIdx(r) :
               obs[r].attempts[i].next \in {"retry", "signature"}
                   => i \notin Range(obs[r].heads) \cup obs[r].bodyFrom

\* C1 case: a request whose first attempt was retried and whose second was
\* signature-recovered has delivered the third attempt's response
DeliveredAfterRetryAndRecovery ==
    \E r \in Slots :
        /\ req[r].pc = "done"
        /\ Len(obs[r].attempts) = 3
        /\ obs[r].attempts[1].next = "retry"
        /\ obs[r].attempts[2].next = "signature"
        /\ obs[r].heads = <<3>>
        /\ obs[r].bodyFrom = {3}

\* C2: within one client request no target identity is forwarded to twice (the
\* initial attempt, the ordinary retries and the signature-recovery attempt go to
\* pairwise distinct identities).
NoTargetForwardedTwice ==
    \A r \in Slots : \A i, j \in AttemptIdx(r) :
        i # j => obs[r].attempts[i].id # obs[r].attempts[j].id

\* C3: a sticky entry exists for a key only if the last classification of an
\* attempt carrying that key that was a success or had clear_sticky = true was a
\* success ...
StickyFollowsSuccess ==
    \A key \in DOMAIN stickyRoutes :
        key \in DOMAIN stickyLog /\ stickyLog[key] = "success"

\* the kind the attempt of request r that ends in this step is classified with
\* ("" when no attempt of r ends in this step or it ends with a proxy error)
ClosingKind(r) ==
    LET n == Len(obs[r].attempts)
    IN  IF n > 0 /\ obs[r].attempts[n].next = "pending"
           /\ Len(obs'[r].attempts) >= n /\ obs'[r].attempts[n].next # "pending"
        THEN obs'[r].attempts[n].kind
        ELSE ""

\* ... and a sticky entry is created, or made to name another target, only by
\* the step that classifies an attempt carrying that key as success.
StickyWrittenOnSuccessOnly ==
    \A key \in DOMAIN stickyRoutes' :
        (key \notin DOMAIN stickyRoutes
         \/ [stickyRoutes[key] EXCEPT !.expiresAt = 0]
                # [stickyRoutes'[key] EXCEPT !.expiresAt = 0])
        => \E r \in Slots : req[r]._stickyKey = key /\ ClosingKind(r) = "success"

StickyOnlyFromSuccess == []StickyFollowsSuccess /\ [][StickyWrittenOnSuccessOnly]_vars

\* C3 case: a request whose failed first attempt cleared the sticky entry of its
\* key has set it again by the success of its retry
StickySetAfterClear ==
    \E r \in Slots :
        /\ req[r].pc = "done"
        /\ Len(obs[r].attempts) >= 2
        /\ obs[r].attempts[1].kind \in {"auth", "transient"}
        /\ req[r]._routeAction = "success"
        /\ req[r]._stickyKey \in DOMAIN stickyRoutes
        /\ stickyLog[req[r]._stickyKey] = "success"

\* the cooldowns classifyResponse gives a kind
CooldownsOfKind(kind) ==
    CASE kind = "auth" -> {AUTH_COOLDOWN_MS, VALIDATION_COOLDOWN_MS, QUOTA_COOLDOWN_MS}
      [] kind = "signature" -> {SIGNATURE_COOLDOWN_MS}
      [] kind = "transient" -> {TRANSIENT_COOLDOWN_MS, TRANSIENT_HEAVY_COOLDOWN_MS}
      [] kind = "other" -> {TRANSIENT_COOLDOWN_MS}
      [] OTHER -> {}

\* C4: whenever a target is treated as cooling for an alias at the current time
\* t, a classified upstream response with cooldown_ms > 0 (the cooldown of its
\* kind) was recorded for that (alias, target) at a time t0 with
\* t0 <= t < t0 + cooldown_ms; every cooldown entry comes from such a response.
CoolingHasCause ==
    /\ \A key \in DOMAIN targetCooldowns :
           /\ key \in DOMAIN cooldownLog
           /\ cooldownLog[key].cooldownMs > 0
           /\ cooldownLog[key].cooldownMs \in CooldownsOfKind(cooldownLog[key].kind)
           /\ targetCooldowns[key].expiresAt
                  = cooldownLog[key].at + cooldownLog[key].cooldownMs
    /\ \A model \in DOMAIN ROUTES : \A target \in AllTargets :
           isTargetCooling(targetCooldowns, model, target, now)
               => LET key == targetCooldownKey(model, target)
                  IN  /\ key \in DOMAIN cooldownLog
                      /\ cooldownLog[key].at <= now
                      /\ now < cooldownLog[key].at + cooldownLog[key].cooldownMs

\* C4 case: time has passed since the failure and the target is still cooling
StillCoolingLater ==
    \E model \in DOMAIN ROUTES : \E target \in AllTargets :
        /\ isTargetCooling(targetCooldowns, model, target, now)
        /\ cooldownLog[targetCooldownKey(model, target)].at < now

\* C5: in every state of a request retry_count (the number of its ordinary
\* retries) is at most MAX_TARGET_RETRIES + (1 if signature recovery fired for
\* it, else 0); with MAX_TARGET_RETRIES = 0 no ordinary retry is made.
RetryBudget ==
    \A r \in Slots :
        /\ req[r]._retryCount = Cardinality(OrdinaryRetries(r))
        /\ req[r]._retryCount
               <= MAX_TARGET_RETRIES + (IF req[r]._signatureRetried THEN 1 ELSE 0)
        /\ MAX_TARGET_RETRIES = 0 => OrdinaryRetries(r) = {}

\* C5 case: a request has used its whole retry budget and its signature recovery
RetriedAndRecovered ==
    \E r \in Slots :
        /\ MAX_TARGET_RETRIES = 1
        /\ req[r]._retryCount = 1
        /\ req[r]._signatureRetried

\* C6: a completed attempt is followed by an ordinary retry only if the response
\* is not SSE, the method is POST, retry_count < MAX_TARGET_RETRIES, the kind is
\* auth or transient, (the status is 401 or 403, or the kind is transient, or
\* RETRY_AUTH_ON_5XX is set and the status is >= 500) and the response headers
\* have not been sent; so no success, client, other or signature attempt is.
RetryOnlyWhenRetriable ==
    \A r \in Slots : \A i \in AttemptIdx(r) :
        LET a == obs[r].attempts[i]
        IN  a.next = "retry" =>
                /\ ~a.sse
                /\ req[r].method = "POST"
                /\ a.retryCount < MAX_TARGET_RETRIES
                /\ a.kind \in {"auth", "transient"}
                /\ \/ a.status \in {401, 403}
                   \/ a.kind = "transient"
                   \/ RETRY_AUTH_ON_5XX /\ a.status >= 500
                /\ ~a.headersSent
                /\ a.kind \notin {"success", "client", "other", "signature"}

\* C6 case: an auth failure with a 5xx status was retried under RETRY_AUTH_ON_5XX
AuthOn5xxRetried ==
    \E r \in Slots : \E i \in AttemptIdx(r) :
        /\ obs[r].attempts[i].next = "retry"
        /\ obs[r].attempts[i].kind = "auth"
        /\ obs[r].attempts[i].status = 500

----------------------------------------------------------------------------
(* Scenario S3: a 401 on the first of two targets *)

\* request r was routed to a target of an alias and its first attempt was
\* answered, not as an event stream, with a 401 classified auth
FirstAnswered401(o) ==
    /\ Len(o.attempts) >= 1
    /\ o.attempts[1].id # DefaultOrigin
    /\ o.attempts[1].status = 401
    /\ o.attempts[1].kind = "auth"
    /\ ~o.attempts[1].sse

AnsweredAttempts(o) ==
    \A i \in 1..Len(o.attempts) : o.attempts[i].next \in {"retry", "signature", "final"}

\* C7 as stated: with MAX_TARGET_RETRIES = 1, a request whose first attempt (on
\* A) was answered 401 auth ends with B invoked exactly once, B's response
\* delivered to the client whatever it is, and a retry trace of exactly one
\* entry, which describes the attempt on A.
S3AsStated ==
    \A r \in Slots :
        (/\ MAX_TARGET_RETRIES = 1
         /\ req[r].pc = "done"
         /\ FirstAnswered401(obs[r])
         /\ AnsweredAttempts(obs[r]))
        => /\ Len(obs[r].attempts) = 2
           /\ obs[r].attempts[2].id # obs[r].attempts[1].id
           /\ obs[r].heads = <<2>>
           /\ Len(req[r]._retryTrace) = 1
           /\ req[r]._retryTrace[1].from = obs[r].attempts[1].id

\* the step in which the first attempt of r is answered 401 auth
S3FirstFails(r) ==
    /\ MAX_TARGET_RETRIES = 1
    /\ Len(obs[r].attempts) = 1
    /\ obs[r].attempts[1].next = "pending"
    /\ FirstAnswered401(obs'[r])

\* the step in which the retry of such a request is answered and no signature
\* recovery follows
S3SecondDelivered(r) ==
    /\ MAX_TARGET_RETRIES = 1
    /\ Len(obs[r].attempts) = 2
    /\ FirstAnswered401(obs[r])
    /\ obs[r].attempts[2].next = "pending"
    /\ Len(obs'[r].attempts) = 2
    /\ obs'[r].attempts[2].next = "final"

\* C7 (amended): with MAX_TARGET_RETRIES = 1 and an alias with two targets A and
\* B, when the first attempt goes to A and A answers 401 auth with a response
\* that is not an event stream, then in the same step a cooldown for A is
\* recorded, the sticky entry of the request's key is cleared, B is invoked as
\* the retry and the retry trace holds exactly one entry, describing the attempt
\* on A; and when B answers and signature recovery does not re-forward the
\* request, B's response is the one delivered, B has been invoked once and the
\* trace still holds that one entry.
S3RetryOnSecondTarget ==
    [][\A r \in Slots :
          /\ S3FirstFails(r) =>
                LET A == req[r]._selectedTarget
                    key == targetCooldownKey(req[r]._model, A)
                IN  /\ key \in DOMAIN targetCooldowns'
                    /\ targetCooldowns'[key].expiresAt > now
                    /\ cooldownLog'[key].at = now
                    /\ req[r]._stickyKey # <<>>
                           => req[r]._stickyKey \notin DOMAIN stickyRoutes'
                    /\ Len(obs'[r].attempts) = 2
                    /\ obs'[r].attempts[1].next = "retry"
                    /\ obs'[r].attempts[2].id # targetIdentity(A)
                    /\ \E i \in 1..Len(ROUTES[req[r]._model].targets) :
                           obs'[r].attempts[2].id
                               = targetIdentity(ROUTES[req[r]._model].targets[i])
                    /\ req'[r].pc = "forwarding"
                    /\ Len(req'[r]._retryTrace) = 1
                    /\ req'[r]._retryTrace[1].from = targetIdentity(A)
                    /\ req'[r]._retryTrace[1].status_code = 401
                    /\ req'[r]._retryTrace[1].route_action = "auth"
          /\ S3SecondDelivered(r) =>
                /\ req'[r].pc = "done"
                /\ obs'[r].ended
                /\ obs'[r].heads = <<2>>
                /\ obs'[r].bodyFrom \subseteq {2}
                /\ ~obs'[r].attempts[2].sse => obs'[r].bodyFrom = {2}
                /\ obs'[r].attempts[2].id # obs'[r].attempts[1].id
                /\ Len(req'[r]._retryTrace) = 1
                /\ req'[r]._retryTrace[1].from = obs'[r].attempts[1].id
      ]_vars

\* C7 case: the retry on B failed too and its response was delivered
S3SecondFailureDelivered ==
    \E r \in Slots :
        /\ MAX_TARGET_RETRIES = 1
        /\ req[r].pc = "done"
        /\ FirstAnswered401(obs[r])
        /\ Len(obs[r].attempts) = 2
        /\ obs[r].attempts[2].kind = "transient"
        /\ obs[r].attempts[2].next = "final"
        /\ obs[r].heads = <<2>>
        /\ obs[r].bodyFrom = {2}
        /\ Len(req[r]._retryTrace) = 1

----------------------------------------------------------------------------
(* Signature recovery *)

\* the targets of the alias that signature recovery chooses among: those not
\* cooling, or all of them when every one is cooling
RecoveryPool(cd, model, t) ==
    LET all == 1..Len(ROUTES[model].targets)
        free == {i \in all : ~isTargetCooling(cd, model, ROUTES[model].targets[i], t)}
    IN  IF free = {} THEN all ELSE free

\* the step in which request r is re-forwarded by signature recovery
RecoveryStep(r) ==
    /\ Len(obs'[r].attempts) = Len(obs[r].attempts) + 1
    /\ obs'[r].attempts[Len(obs'[r].attempts)].via = "signature"

\* C8: a request is re-forwarded by signature recovery only when an attempt is
\* classified signature with the headers not yet sent, at most once in its
\* lifetime, to the highest-weight available target of an alias listed in the
\* signature-group index for the group of its signature, and its current alias
\* becomes that alias; a signature failure after the recovery is delivered to
\* the client.
SignatureRecoveryOnce ==
    [][\A r \in Slots :
          /\ RecoveryStep(r) =>
                LET model == req'[r]._model
                    pool == RecoveryPool(targetCooldowns', model, now)
                IN  /\ ClosingKind(r) = "signature"
                    /\ ~req[r].headersSent
                    /\ ~req[r]._signatureRetried
                    /\ req'[r]._signatureRetried
                    /\ model \in Range(SIGNATURE_GROUP_ROUTES(
                                           extractThinkingSignatureGroup(req[r])))
                    /\ req'[r]._resolvedModel = model
                    /\ obs'[r].attempts[Len(obs'[r].attempts)].model = model
                    /\ \E i \in pool :
                           /\ req'[r]._selectedTarget = ROUTES[model].targets[i]
                           /\ \A j \in pool : ROUTES[model].weights[j]
                                                  <= ROUTES[model].weights[i]
                    /\ Cardinality({i \in 1..Len(obs'[r].attempts) :
                                       obs'[r].attempts[i].via = "signature"}) = 1
          /\ (req[r]._signatureRetried /\ ClosingKind(r) = "signature") =>
                /\ req'[r].pc = "done"
                /\ obs'[r].ended
                /\ obs'[r].attempts[Len(obs'[r].attempts)].next = "final"
                /\ obs'[r].heads = <<Len(obs'[r].attempts)>>
      ]_vars

\* C8 case: the recovery attempt failed with a signature error too and that
\* response was delivered
SecondSignatureFailureDelivered ==
    \E r \in Slots :
        LET n == Len(obs[r].attempts)
        IN  /\ req[r].pc = "done"
            /\ n >= 2
            /\ obs[r].attempts[n].via = "signature"
            /\ obs[r].attempts[n].kind = "signature"
            /\ obs[r].attempts[n].model # obs[r].attempts[n - 1].model
            /\ obs[r].heads = <<n>>

----------------------------------------------------------------------------
(* Sticky routing of arriving requests *)

\* the step in which a POST with a JSON body arrives in slot r
Arrives(r) ==
    /\ req[r].pc \in {"idle", "done"}
    /\ req'[r].pc = "forwarding"
    /\ req'[r].method = "POST"
    /\ req'[r]._requestedModel # ""

\* the session key whose hash the request carries
SessionOf(rq) == CHOOSE k \in SessionKeys : hashSessionKey(k) = rq._sessionKeyHash

\* the alias the router and auto-upgrade resolved for the request
RouterResolved(rq) ==
    IF rq._autoUpgrade.hit THEN rq._autoUpgrade.targetModel
    ELSE IF rq._modelRouter.enabled /\ rq._modelRouter.activated
            /\ rq._modelRouter.applied /\ rq._modelRouter.resolved_model # ""
    THEN rq._modelRouter.resolved_model
    ELSE rq._requestedModel

EntryTarget(entry) ==
    [instance |-> entry.instance, target |-> entry.target, rewrite |-> entry.rewrite]

\* positions in RouteOrder of the aliases with a live sticky entry of the
\* session: one that has not expired and names a target of that alias
LiveStickyAliases(sessionKey) ==
    {i \in 1..Len(RouteOrder) :
        LET key == stickyRouteKey(sessionKey, RouteOrder[i])
        IN  /\ key \in DOMAIN stickyRoutes
            /\ stickyRoutes[key].expiresAt > now
            /\ \E j \in 1..Len(ROUTES[RouteOrder[i]].targets) :
                   ROUTES[RouteOrder[i]].targets[j] = EntryTarget(stickyRoutes[key])}

\* request r is forwarded to the sticky target of the first alias in RouteTable
\* order that has a live entry of its session, under that alias
LockedToFirstLive(r) ==
    LET sessionKey == SessionOf(req'[r])
        live == LiveStickyAliases(sessionKey)
        first == CHOOSE i \in live : \A j \in live : i <= j
        model == RouteOrder[first]
        target == EntryTarget(stickyRoutes[stickyRouteKey(sessionKey, model)])
    IN  /\ req'[r]._model = model
        /\ req'[r]._selectedTarget = target
        /\ req'[r]._routingDecision = "thinking_sticky_cross_model_locked"
        /\ obs'[r].attempts = <<Attempt(targetIdentity(target), model, "first")>>

ThinkingWithLiveSticky(r) ==
    /\ Arrives(r)
    /\ req'[r]._hasThinkingSignature
    /\ req'[r]._sessionKeyHash # ""
    /\ LiveStickyAliases(SessionOf(req'[r])) # {}

StickyPinsNextRequest ==
    [][\A r \in Slots :
          LET key == req[r]._stickyKey
              T == req[r]._selectedTarget
          IN  (/\ req[r].pc = "done"
               /\ req[r]._routeAction = "success"
               /\ key # <<>>
               /\ T # NoTarget
               /\ key \in DOMAIN stickyRoutes
               /\ EntryTarget(stickyRoutes[key]) = T
               /\ stickyRoutes[key].expiresAt > now
               /\ ~isTargetCooling(targetCooldowns, key[2], T, now)
               /\ Arrives(r)
               /\ ~req'[r]._hasThinkingSignature
               /\ req'[r]._stickyKey = key
               /\ RouterResolved(req'[r]) = key[2])
              => /\ req'[r]._selectedTarget = T
                 /\ key \in DOMAIN stickyRoutes'
                 /\ stickyRoutes'[key].expiresAt = now + STICKY_ROUTE_TTL_MS
      ]_vars

----------------------------------------------------------------------------
(* Cooldowns and the candidate pool *)

\* the targets of alias model that are cooling in the current state
CoolingTargets(model) ==
    {i \in 1..Len(ROUTES[model].targets) :
        isTargetCooling(targetCooldowns, model, ROUTES[model].targets[i], now)}

\* the step in which a non-thinking request arrives for a routed alias
NonThinkingArrives(r) ==
    /\ Arrives(r)
    /\ ~req'[r]._hasThinkingSignature
    /\ HasRoute(req'[r]._model)

\* C11: the first attempt of a non-thinking request is never sent to a target
\* that is cooling for the resolved alias while at least one target of that
\* alias is not cooling, whether the target comes from a sticky entry or from
\* weighted random, and under every interleaving with the sticky and cooldown
\* updates of other requests in flight.
FirstAttemptAvoidsCooling ==
    [][\A r \in Slots :
          (/\ NonThinkingArrives(r)
           /\ CoolingTargets(req'[r]._model) # 1..Len(ROUTES[req'[r]._model].targets))
              => /\ req'[r]._selectedTarget # NoTarget
                 /\ ~isTargetCooling(targetCooldowns, req'[r]._model,
                                     req'[r]._selectedTarget, now)
                 /\ obs'[r].attempts =
                        <<Attempt(targetIdentity(req'[r]._selectedTarget),
                                  req'[r]._model, "first")>>
      ]_vars

\* C11 case: while another request is in flight on its retry target, a
\* non-thinking request has been sent, as its first attempt, to the one target
\* of its alias that is not cooling
SentAroundCoolingWhileOtherInFlight ==
    \E r, q \in Slots :
        /\ r # q
        /\ req[q].pc = "forwarding"
        /\ req[q]._retryCount > 0
        /\ req[r].pc = "forwarding"
        /\ req[r]._retryCount = 0
        /\ ~req[r]._hasThinkingSignature
        /\ HasRoute(req[r]._model)
        /\ Len(obs[r].attempts) = 1
        /\ CoolingTargets(req[r]._model) # {}
        /\ ~isTargetCooling(targetCooldowns, req[r]._model, req[r]._selectedTarget, now)

\* the decisions of a selection that used a sticky entry
StickyDecisions ==
    {"sticky_session_model", "sticky_session_model_thinking_locked",
     "thinking_sticky_cross_model_locked"}

\* the decisions whose tag ends with _all_targets_in_cooldown
CooledOutDecisions ==
    {prefix \o "_all_targets_in_cooldown" :
        prefix \in {"weighted_random", "weighted_random_no_session",
                    "thinking_primary_locked", "thinking_primary_locked_no_session"}}

\* C12: when every target of the resolved alias is cooling and no sticky entry
\* is used, selection falls back to the alias's full target list (the request
\* is forwarded to one of its targets, not rejected and not sent to the default
\* origin) and the decision tag ends with _all_targets_in_cooldown.
AllCoolingFallsBack ==
    [][\A r \in Slots :
          (/\ Arrives(r)
           /\ HasRoute(req'[r]._model)
           /\ req'[r]._routingDecision \notin StickyDecisions
           /\ CoolingTargets(req'[r]._model) = 1..Len(ROUTES[req'[r]._model].targets))
              => /\ \E i \in 1..Len(ROUTES[req'[r]._model].targets) :
                        req'[r]._selectedTarget = ROUTES[req'[r]._model].targets[i]
                 /\ obs'[r].attempts =
                        <<Attempt(targetIdentity(req'[r]._selectedTarget),
                                  req'[r]._model, "first")>>
                 /\ req'[r]._routingDecision \in CooledOutDecisions
      ]_vars

\* C12 case: a request is in flight on its first attempt, on a target of an
\* alias all of whose targets are cooling
ForwardedWhileAllCooling ==
    \E r \in Slots :
        /\ req[r].pc = "forwarding"
        /\ Len(obs[r].attempts) = 1
        /\ HasRoute(req[r]._model)
        /\ req[r]._routingDecision \in CooledOutDecisions
        /\ CoolingTargets(req[r]._model) = 1..Len(ROUTES[req[r]._model].targets)
        /\ req[r]._selectedTarget # NoTarget

----------------------------------------------------------------------------
(* The sticky map at capacity *)

MaxStickyOps == 3
StickyHeadroom == 1
StickyLoadedAt == 200

\* session keys of the form getSessionKey builds from metadata.user_id
StickySession(i) == "metadata:u" \o ToString(i)

\* the k-th key the map was given: two aliases per session
StickyKeyOf(k) == stickyRouteKey(StickySession((k + 1) \div 2), RouteOrder[(k % 2) + 1])

\* the minute the k-th key was inserted at (up to three inserts in a minute)
StickyInsertedAt(k) == k \div 3

\* The sticky map after successes of n different (session, alias) pairs, each
\* stored by setStickyTarget at its minute
StickyLoaded(n) ==
    [key \in {StickyKeyOf(k) : k \in 1..n} |->
        LET k == CHOOSE k \in 1..n : StickyKeyOf(k) = key
            target == ROUTES[key[2]].targets[1]
        IN  [instance |-> target.instance, target |-> target.target,
             rewrite |-> target.rewrite,
             expiresAt |-> StickyInsertedAt(k) + STICKY_ROUTE_TTL_MS]]

\* the keys the operations on the loaded map use: one it holds, two it does not
StickyOpKeys ==
    {StickyKeyOf(1), StickyKeyOf(MAX_STICKY_KEYS + 1), StickyKeyOf(MAX_STICKY_KEYS + 2)}

\* setStickyTarget(req._stickyKey, req._selectedTarget) of a successful response
StickyInsert(key) ==
    /\ started < MaxStickyOps
    /\ started' = started + 1
    /\ stickyRoutes' \in setStickyTarget(stickyRoutes, key, ROUTES[key[2]].targets[1], now)
    /\ UNCHANGED <<now, ticks, MAX_TARGET_RETRIES, RETRY_AUTH_ON_5XX, globalConf, MODEL_ROUTER_CONFIG, forwarded, drawn, targetCooldowns,
                   modelHealth, req, obs, stickyLog, cooldownLog>>

\* getStickyTarget(route, key, model) of an arriving non-thinking request
StickyHit(key) ==
    /\ started < MaxStickyOps
    /\ started' = started + 1
    /\ \E got \in {getStickyTarget(stickyRoutes, targetCooldowns, ROUTES[key[2]], key,
                                   key[2], FALSE, now)} :
           /\ stickyRoutes' = got.sticky
           /\ targetCooldowns' = got.cooldowns
    /\ UNCHANGED <<now, ticks, MAX_TARGET_RETRIES, RETRY_AUTH_ON_5XX, globalConf, MODEL_ROUTER_CONFIG, forwarded, drawn, modelHealth, req,
                   obs, stickyLog, cooldownLog>>

\* clearStickyTarget(req._stickyKey) of a response classified clearSticky
StickyClear(key) ==
    /\ started < MaxStickyOps
    /\ started' = started + 1
    /\ stickyRoutes' = clearStickyTarget(stickyRoutes, key)
    /\ UNCHANGED <<now, ticks, MAX_TARGET_RETRIES, RETRY_AUTH_ON_5XX, globalConf, MODEL_ROUTER_CONFIG, forwarded, drawn, targetCooldowns,
                   modelHealth, req, obs, stickyLog, cooldownLog>>

InitSticky ==
    /\ now = StickyLoadedAt
    /\ ticks = 0
    /\ started = 0
    /\ MAX_TARGET_RETRIES = 1
    /\ RETRY_AUTH_ON_5XX = TRUE
    /\ globalConf = DefaultConf
    /\ MODEL_ROUTER_CONFIG = normalize_lb_model_router_config(globalConf.lb_model_router)
    /\ forwarded = NothingForwarded
    /\ drawn = NoPool
    /\ stickyRoutes \in {StickyLoaded(n) :
                            n \in (MAX_STICKY_KEYS - StickyHeadroom)..MAX_STICKY_KEYS}
    /\ targetCooldowns = EmptyMap
    /\ modelHealth = EmptyMap
    /\ req = [r \in Slots |-> IdleReq]
    /\ obs = [r \in Slots |-> IdleObs]
    /\ stickyLog = EmptyMap
    /\ cooldownLog = EmptyMap

NextSticky ==
    \/ \E key \in StickyOpKeys : StickyInsert(key)
    \/ \E key \in StickyOpKeys : StickyHit(key)
    \/ \E key \in StickyOpKeys : StickyClear(key)
    \/ \E step \in TickSteps : Tick(step)
    \/ StickySweep

SpecSticky == InitSticky /\ [][NextSticky]_vars

StickyWithinCapacity == Cardinality(DOMAIN stickyRoutes) <= MAX_STICKY_KEYS

\* a step that inserts a new key into a map at capacity evicts
\* ceil(0.2 * MAX_STICKY_KEYS) entries, none expiring later than one it keeps
EvictsEarliestFifth ==
    (/\ Cardinality(DOMAIN stickyRoutes) >= MAX_STICKY_KEYS
     /\ (DOMAIN stickyRoutes') \ (DOMAIN stickyRoutes) # {})
        => LET gone == (DOMAIN stickyRoutes) \ (DOMAIN stickyRoutes')
               kept == (DOMAIN stickyRoutes) \cap (DOMAIN stickyRoutes')
           IN  /\ 10 * Cardinality(gone) >= 2 * MAX_STICKY_KEYS
               /\ 10 * (Cardinality(gone) - 1) < 2 * MAX_STICKY_KEYS
               /\ \A a \in gone : \A b \in kept :
                      stickyRoutes[a].expiresAt <= stickyRoutes[b].expiresAt
               /\ \A b \in kept : stickyRoutes'[b] = stickyRoutes[b]

\* C13: after any sequence of sticky inserts, hits, clears and sweeps the sticky
\* map never holds more than MAX_STICKY_KEYS entries; inserting a new key at
\* capacity first evicts ceil(0.2 * MAX_STICKY_KEYS) entries, and no evicted
\* entry has a later expires_at than an entry that is kept.
StickyCapacity == []StickyWithinCapacity /\ [][EvictsEarliestFifth]_vars

\* C13 case: a new key has been inserted into a full map, which evicted a fifth
\* of the capacity
EvictedAtCapacity ==
    /\ StickyKeyOf(MAX_STICKY_KEYS + 1) \in DOMAIN stickyRoutes
    /\ Cardinality(DOMAIN stickyRoutes) < MAX_STICKY_KEYS - StickyHeadroom
    /\ Cardinality(DOMAIN stickyRoutes) > MAX_STICKY_KEYS \div 2

----------------------------------------------------------------------------
(* Lifetime of a cooldown entry *)

\* C14: once a cooldown entry for (alias, target) has been created, its
\* expires_at never changes until the entry is removed by expiry: a later
\* classified failure of the same target under the same alias while the entry
\* is live neither extends nor shortens the cooldown.
CooldownNeverRewritten ==
    [][\A key \in DOMAIN targetCooldowns :
          (/\ targetCooldowns[key].expiresAt > now
           /\ key \in DOMAIN targetCooldowns')
              => targetCooldowns'[key].expiresAt = targetCooldowns[key].expiresAt
      ]_vars

----------------------------------------------------------------------------
(* Classification of quota errors *)

QuotaResponse(response) ==
    /\ ~(response.status >= 200 /\ response.status < 300)
    /\ response.summary \cap QuotaPhrases # {}
    /\ ~(response.status = 403 /\ response.summary \cap ValidationPhrases # {})

\* C15: every non-2xx response whose error summary contains a quota phrase and
\* is not a 403 validation error is classified kind auth, with the cooldown
\* QUOTA_COOLDOWN and clear_sticky true, whatever its status code.
QuotaErrorsAreAuth ==
    [][\A r \in Slots, response \in RouterResponses :
          (/\ QuotaResponse(response)
           /\ ProxyResEnd(r, response.status, response.summary))
              => /\ req'[r]._routeAction = "auth"
                 /\ req[r]._selectedTarget # NoTarget
                        => req'[r]._cooldownMsApplied = QUOTA_COOLDOWN_MS
                 /\ req[r]._stickyKey # <<>> => req'[r]._stickyAction = "clear_on_error"
      ]_vars

----------------------------------------------------------------------------
(* Model router and auto-upgrade *)

\* the alias resolveAutoUpgradeModel and target selection were given: the source
\* of the upgrade when there was one, the alias of the request otherwise
HandedOn(rq) == IF rq._autoUpgrade.hit THEN rq._autoUpgrade.sourceModel ELSE rq._model

\* a cross-model sticky lock replaces req._model after the router and auto-upgrade
\* have run; without an upgrade record the alias handed on is then not kept
HandedOnKept(rq) ==
    rq._autoUpgrade.hit \/ rq._routingDecision # "thinking_sticky_cross_model_locked"

RouterActive(requested) ==
    /\ MODEL_ROUTER_CONFIG.enabled
    /\ \/ Len(MODEL_ROUTER_CONFIG.activation_models) = 0
       \/ \E i \in 1..Len(MODEL_ROUTER_CONFIG.activation_models) :
              MODEL_ROUTER_CONFIG.activation_models[i] = requested

\* C16: the router's applied flag is true exactly when shadow_only is false and
\* the suggested alias differs from the requested alias; the alias handed on to
\* auto-upgrade and target selection differs from the requested alias only if
\* applied is true; with the router disabled (decision disabled), not activated
\* for the requested alias (decision not_activated) or in shadow mode, it is
\* the requested alias.
RouterAppliedOnly ==
    [][\A r \in Slots :
          Arrives(r) =>
              LET rq == req'[r]
                  modelRouter == rq._modelRouter
                  requested == rq._requestedModel
              IN  /\ modelRouter.applied
                         <=> /\ ~MODEL_ROUTER_CONFIG.shadow_only
                             /\ modelRouter.suggested_model # requested
                  /\ ~MODEL_ROUTER_CONFIG.enabled => modelRouter.decision = "disabled"
                  /\ (MODEL_ROUTER_CONFIG.enabled /\ ~RouterActive(requested))
                         => modelRouter.decision = "not_activated"
                  /\ (HandedOnKept(rq) /\ HandedOn(rq) # requested)
                         => /\ modelRouter.applied
                            /\ HandedOn(rq) = modelRouter.suggested_model
                  /\ (/\ HandedOnKept(rq)
                      /\ \/ ~RouterActive(requested)
                         \/ MODEL_ROUTER_CONFIG.shadow_only)
                         => HandedOn(rq) = requested
      ]_vars

\* C16 case: in shadow mode the router has suggested another alias than the
\* requested one, and the request went on under the requested alias
ShadowSuggestionNotApplied ==
    \E r \in Slots :
        /\ req[r].pc # "idle"
        /\ MODEL_ROUTER_CONFIG.shadow_only
        /\ RouterActive(req[r]._requestedModel)
        /\ req[r]._modelRouter.suggested_model # req[r]._requestedModel
        /\ ~req[r]._modelRouter.applied
        /\ HandedOnKept(req[r])
        /\ HandedOn(req[r]) = req[r]._requestedModel

\* the step is the handler taking this arrival in slot r
Handles(r, arrival) ==
    /\ Arrives(r)
    /\ req'[r]._requestedModel = arrival.body.model
    /\ req'[r].signature = arrival.body.signature
    /\ HandlePost(r, arrival.body, arrival.sessionKey)

\* the factors the router evaluates for an arrival in the current state
FactorsOf(arrival) ==
    buildModelRouterFactors(arrival.body.model, arrival.body, modelHealth,
                            hashSessionKey(arrival.sessionKey), now)

\* the categories of the configuration file that are usable (a target_model and
\* a signal) and have a signal matching the factors, by position in the file
MatchingCategories(factors) ==
    LET categories == globalConf.lb_model_router.categories
    IN  {i \in 1..Len(categories) :
            /\ categories[i].target_model # ""
            /\ \E k \in 1..Len(categories[i].signals) :
                   evaluateCategorySignal(categories[i].signals[k], factors)}

\* the highest-priority one of them, the earliest in the file among equals
BestCategory(factors) ==
    LET categories == globalConf.lb_model_router.categories
        matching == MatchingCategories(factors)
    IN  categories[CHOOSE i \in matching :
                       \A j \in matching :
                           \/ categories[j].priority < categories[i].priority
                           \/ categories[j].priority = categories[i].priority /\ i <= j]

CategoryDecisions ==
    {"category_hit_" \o globalConf.lb_model_router.categories[i].name :
        i \in 1..Len(globalConf.lb_model_router.categories)}

\* C17: when the router is active and some category has a matching signal, the
\* decision is category_hit_<name> for the highest-priority matching category,
\* provided its target_model is in the RouteTable, whichever threshold rules
\* match; a category hit whose target_model is not in the RouteTable never
\* determines the suggested alias.
CategoryHitFirst ==
    [][\A r \in Slots, arrival \in RouterArrivals :
          (/\ Handles(r, arrival)
           /\ RouterActive(arrival.body.model)
           /\ MatchingCategories(FactorsOf(arrival)) # {})
              => LET best == BestCategory(FactorsOf(arrival))
                     modelRouter == req'[r]._modelRouter
                 IN  IF HasRoute(best.target_model)
                     THEN /\ modelRouter.decision = "category_hit_" \o best.name
                          /\ modelRouter.suggested_model = best.target_model
                     ELSE modelRouter.decision \notin CategoryDecisions
      ]_vars

\* C17 case: a request matched two categories and a threshold rule, and the
\* router decided for the category of higher priority, listed later in the file
HigherCategoryBeatsRules ==
    \E r \in Slots :
        /\ req[r].pc # "idle"
        /\ req[r]._modelRouter.decision = "category_hit_deep"
        /\ req[r]._modelRouter.suggested_model = "slow"
        /\ Len(globalConf.lb_model_router.categories) = 3
        /\ globalConf.lb_model_router.categories[1].name = "quick"
        /\ Len(globalConf.lb_model_router.rules) = 4

CategoryHitAccepted(factors) ==
    /\ MatchingCategories(factors) # {}
    /\ HasRoute(BestCategory(factors).target_model)

\* every condition for match all, at least one for match any, always for an
\* empty when-list
ConditionsMatch(rule, factors) ==
    \/ Len(rule.when) = 0
    \/ /\ rule.match = "any"
       /\ \E i \in 1..Len(rule.when) : evaluateModelRouterCondition(rule.when[i], factors)
    \/ /\ rule.match = "all"
       /\ \A i \in 1..Len(rule.when) : evaluateModelRouterCondition(rule.when[i], factors)

\* the rules of the configuration file that have a target_model in the
\* RouteTable and conditions matching the factors, by position among the rules
\* kept
MatchingRules(factors) ==
    LET rules == named_rules(globalConf.lb_model_router.rules)
    IN  {i \in 1..Len(rules) :
            HasRoute(rules[i].target_model) /\ ConditionsMatch(rules[i], factors)}

\* the first of them in descending priority, the earliest in the file among equals
FirstRule(factors) ==
    LET rules == named_rules(globalConf.lb_model_router.rules)
        matching == MatchingRules(factors)
    IN  rules[CHOOSE i \in matching :
                  \A j \in matching :
                      \/ rules[j].priority < rules[i].priority
                      \/ rules[j].priority = rules[i].priority /\ i <= j]

RuleDecisions ==
    {"rule_hit_" \o named_rules(globalConf.lb_model_router.rules)[i].name :
        i \in 1..Len(named_rules(globalConf.lb_model_router.rules))}

\* C18: when no category hit is accepted, the decision is rule_hit_<name> for
\* the first rule, in descending priority order (configuration order among equal
\* priorities), whose target_model is in the RouteTable and whose conditions
\* match: every condition for match=all, at least one for match=any, always for
\* an empty when-list; rules after that one are not considered.
RuleHitFirst ==
    [][\A r \in Slots, arrival \in RouterArrivals :
          (/\ Handles(r, arrival)
           /\ RouterActive(arrival.body.model)
           /\ ~CategoryHitAccepted(FactorsOf(arrival)))
              => LET modelRouter == req'[r]._modelRouter
                 IN  IF MatchingRules(FactorsOf(arrival)) # {}
                     THEN /\ modelRouter.decision =
                                 "rule_hit_" \o FirstRule(FactorsOf(arrival)).name
                          /\ modelRouter.suggested_model =
                                 FirstRule(FactorsOf(arrival)).target_model
                     ELSE modelRouter.decision \notin RuleDecisions
      ]_vars

\* C18 case: with no category hit, two rules of equal priority and a rule of
\* lower priority with an empty when-list all matched, and the router decided
\* for the one of the equals that the file lists first
FirstOfEqualRulesHit ==
    \E r \in Slots :
        /\ req[r].pc # "idle"
        /\ req[r]._modelRouter.decision = "rule_hit_long"
        /\ Len(globalConf.lb_model_router.rules) = 4
        /\ globalConf.lb_model_router.rules[1].name = "always"
        /\ globalConf.lb_model_router.rules[3].name = "busy"

\* the router is active for the arrival and neither a category nor a rule hits
NothingHits(arrival) ==
    /\ RouterActive(arrival.body.model)
    /\ ~CategoryHitAccepted(FactorsOf(arrival))
    /\ MatchingRules(FactorsOf(arrival)) = {}

\* C19 as stated: when the router is active and neither a category nor a rule
\* hits, the suggested alias is default_model if it is set and in the
\* RouteTable; in every other case (unset, or set but absent from the
\* RouteTable) the suggested alias stays the requested alias and the decision
\* is no_rule.
DefaultOrNoRule ==
    [][\A r \in Slots, arrival \in RouterArrivals :
          (Handles(r, arrival) /\ NothingHits(arrival))
              => LET modelRouter == req'[r]._modelRouter
                     default_model == globalConf.lb_model_router.default_model
                 IN  IF default_model # "" /\ HasRoute(default_model)
                     THEN modelRouter.suggested_model = default_model
                     ELSE /\ modelRouter.suggested_model = arrival.body.model
                          /\ modelRouter.decision = "no_rule"
      ]_vars

\* C19, amended: when the router is active and neither a category nor a rule
\* hits, the suggested alias is default_model, with decision default_model, if
\* default_model is set and in the RouteTable; otherwise the suggested alias
\* stays the requested alias, with decision no_rule if default_model is unset
\* and decision default_model_not_found if it is set but absent from the
\* RouteTable.
DefaultOrNotFound ==
    [][\A r \in Slots, arrival \in RouterArrivals :
          (Handles(r, arrival) /\ NothingHits(arrival))
              => LET modelRouter == req'[r]._modelRouter
                     default_model == globalConf.lb_model_router.default_model
                 IN  IF default_model = ""
                     THEN /\ modelRouter.suggested_model = arrival.body.model
                          /\ modelRouter.decision = "no_rule"
                     ELSE IF HasRoute(default_model)
                     THEN /\ modelRouter.suggested_model = default_model
                          /\ modelRouter.decision = "default_model"
                     ELSE /\ modelRouter.suggested_model = arrival.body.model
                          /\ modelRouter.decision = "default_model_not_found"
      ]_vars

\* C19 case: nothing hit and the default_model of the configuration is absent
\* from the RouteTable: the suggestion is the requested alias
DefaultModelNotFound ==
    \E r \in Slots :
        /\ req[r].pc # "idle"
        /\ RouterActive(req[r]._requestedModel)
        /\ globalConf.lb_model_router.default_model = "nope"
        /\ req[r]._modelRouter.decision = "default_model_not_found"
        /\ req[r]._modelRouter.suggested_model = req[r]._requestedModel

\* the alias the handler gives resolveAutoUpgradeModel: the router's when applied
CurrentAlias(modelRouter, requested) ==
    IF modelRouter.enabled /\ modelRouter.activated /\ modelRouter.applied
       /\ modelRouter.resolved_model # ""
    THEN modelRouter.resolved_model ELSE requested

\* at least one trigger holds for the arrival under the current alias; the
\* failure streak is the one recorded for the session and that alias
UpgradeTriggered(arrival, current) ==
    \/ arrival.body.messagesCount >= AUTO_UPGRADE_MESSAGES_THRESHOLD
    \/ arrival.body.toolsCount >= AUTO_UPGRADE_TOOLS_THRESHOLD
    \/ getModelHealth(modelHealth,
                      modelHealthKey(hashSessionKey(arrival.sessionKey), current),
                      now).failureStreak >= AUTO_UPGRADE_FAILURE_STREAK_THRESHOLD
    \/ /\ globalConf.lb_auto_upgrade_signature_enabled
       /\ Len(arrival.body.signature) > 0

\* the map has an entry for the alias: the generator keeps the entries whose
\* target is not empty and is not the source
HasUpgradeEntry(current) ==
    /\ current \in DOMAIN globalConf.lb_auto_upgrade_map
    /\ globalConf.lb_auto_upgrade_map[current] \notin {"", current}

\* C20: auto-upgrade rewrites the current alias to the mapped alias if and only
\* if auto-upgrade is enabled, the map has an entry for the current alias, the
\* mapped alias is in the RouteTable and at least one trigger holds (messages
\* count, tools count, failure streak, or a thinking signature while
\* signature-upgrade is enabled); otherwise the alias is left unchanged; the
\* rewrite is applied at most once per request, never chained through the map.
AutoUpgradeExactly ==
    [][\A r \in Slots, arrival \in RouterArrivals :
          Handles(r, arrival) =>
              LET rq == req'[r]
                  current == CurrentAlias(rq._modelRouter, arrival.body.model)
                  due == /\ globalConf.lb_auto_upgrade_enabled
                         /\ HasUpgradeEntry(current)
                         /\ HasRoute(globalConf.lb_auto_upgrade_map[current])
                         /\ UpgradeTriggered(arrival, current)
              IN  IF due
                  THEN /\ rq._autoUpgrade.hit
                       /\ rq._autoUpgrade.sourceModel = current
                       /\ rq._autoUpgrade.targetModel = globalConf.lb_auto_upgrade_map[current]
                       /\ rq._routingDecision # "thinking_sticky_cross_model_locked"
                              => rq._model = globalConf.lb_auto_upgrade_map[current]
                  ELSE /\ ~rq._autoUpgrade.hit
                       /\ rq._routingDecision # "thinking_sticky_cross_model_locked"
                              => rq._model = current
      ]_vars

\* C20 case: on its failure streak alone a request has been upgraded from fast
\* to slow, and stayed on slow although the map has an entry for slow as well
UpgradedOnceOnFailureStreak ==
    \E r \in Slots :
        /\ req[r].pc # "idle"
        /\ req[r]._autoUpgrade.hit
        /\ req[r]._autoUpgrade.reasons = {"failure_streak"}
        /\ req[r]._autoUpgrade.sourceModel = "fast"
        /\ req[r]._model = "slow"
        /\ HasUpgradeEntry("slow")
        /\ HasRoute(globalConf.lb_auto_upgrade_map["slow"])

----------------------------------------------------------------------------
(* Event streams *)

\* what the client has of the stream is what the upstream sent, in its order
StreamedAsArrived ==
    \A r \in Slots :
        /\ obs[r].written = obs[r].chunks
        /\ obs[r].written # <<>>
               => /\ obs[r].heads # <<>>
                  /\ obs[r].heads[Len(obs[r].heads)] = LastAttempt(obs[r])
                  /\ LastAttempt(obs[r]) \in obs[r].bodyFrom

\* a step of a request whose upstream is answering with an event stream
StreamStep(r) ==
    /\ req[r].pc = "streaming"
    /\ req[r].headersSent
    /\ obs[r].attempts[LastAttempt(obs[r])].kind = ""
    /\ Len(obs'[r].attempts) = Len(obs[r].attempts)
    /\ req'[r].pc \in {"streaming", "done"}
    /\ req'[r]._retryCount = req[r]._retryCount
    /\ req'[r]._signatureRetried = req[r]._signatureRetried
    /\ \/ obs'[r].written = obs[r].written
       \/ \E chunk \in Chunks : obs'[r].written = Append(obs[r].written, chunk)
    /\ obs'[r].attempts[LastAttempt(obs[r])].kind # ""
           => /\ req'[r].pc = "done"
              /\ obs'[r].ended
              /\ obs'[r].written = obs[r].written
              /\ obs'[r].heads = obs[r].heads
    /\ req'[r].pc = "streaming"
           => /\ req'[r]._routeAction = req[r]._routeAction
              /\ req'[r]._stickyAction = req[r]._stickyAction
              /\ req'[r]._cooldownMsApplied = req[r]._cooldownMsApplied

\* C21: for an upstream response with content-type text/event-stream, headers
\* are written to the client before any body byte, body chunks reach the client
\* in arrival order and unmodified, and the attempt is never retried or
\* signature-recovered whatever its status and classification; classification
\* happens only after the stream has ended.
EventStreamPassedThrough ==
    /\ []StreamedAsArrived
    /\ [][\A r \in Slots :
             IF req[r].pc = "streaming"
             THEN StreamStep(r)
             ELSE obs'[r].written \in {obs[r].written, <<>>}
        ]_vars

\* C21 case: with a retry left, the event stream of a thinking request ended
\* with a 400 classified as a signature failure after three chunks had reached
\* the client, and that attempt was the last one
SignatureFailureStreamedOut ==
    \E r \in Slots :
        /\ MAX_TARGET_RETRIES = 1
        /\ req[r].pc = "done"
        /\ req[r]._hasThinkingSignature
        /\ Len(obs[r].attempts) = 1
        /\ obs[r].attempts[1].sse
        /\ obs[r].attempts[1].kind = "signature"
        /\ obs[r].attempts[1].next = "final"
        /\ obs[r].written = <<"data: a", "data: b", "data: a">>
        /\ obs[r].heads = <<1>>

----------------------------------------------------------------------------
(* Model health *)

\* the entry of (session hash or anon, requested alias)
HealthKeyOf(rq) ==
    <<IF rq._sessionKeyHash = "" THEN "anon" ELSE rq._sessionKeyHash, rq._requestedModel>>

StreaksOf(mh, key) ==
    IF key \in DOMAIN mh
    THEN <<mh[key].failureStreak, mh[key].successStreak>> ELSE <<0, 0>>

\* the step closes an attempt of request r with a classified response
Classified(r) ==
    /\ req[r].pc \in {"forwarding", "streaming"}
    /\ obs'[r].attempts[LastAttempt(obs[r])].kind # ""
    /\ obs[r].attempts[LastAttempt(obs[r])].kind = ""

OneStreakAtMost ==
    \A key \in DOMAIN modelHealth :
        modelHealth[key].failureStreak = 0 \/ modelHealth[key].successStreak = 0

\* C22: each client request (naming an alias) that ends with a classified
\* final response updates the health entry of (session hash or anon, requested
\* alias) exactly once: a success sets failure_streak to 0 and increments
\* success_streak, any non-success sets success_streak to 0 and increments
\* failure_streak; attempts followed by a retry or a signature recovery leave
\* the entry unchanged; at most one of the two streaks is non-zero in every
\* reachable state.
HealthUpdatedOncePerRequest ==
    /\ []OneStreakAtMost
    /\ [][\A r \in Slots :
             (Classified(r) /\ req[r]._requestedModel # "") =>
                 LET key == HealthKeyOf(req[r])
                     before == StreaksOf(modelHealth, key)
                     after == StreaksOf(modelHealth', key)
                     closed == obs'[r].attempts[LastAttempt(obs[r])]
                 IN  /\ \A other \in (DOMAIN modelHealth \cup DOMAIN modelHealth') \ {key} :
                            /\ other \in DOMAIN modelHealth \cap DOMAIN modelHealth'
                            /\ modelHealth'[other] = modelHealth[other]
                     /\ IF closed.next # "final"
                        THEN /\ closed.next \in {"retry", "signature"}
                             /\ req'[r].pc = "forwarding"
                             /\ modelHealth' = modelHealth
                        ELSE /\ req'[r].pc = "done"
                             /\ key \in DOMAIN modelHealth'
                             /\ modelHealth'[key].updatedAt = now
                             /\ IF closed.kind = "success"
                                THEN after = <<0, before[2] + 1>>
                                ELSE after = <<before[1] + 1, 0>>
        ]_vars

\* C22 case: a request whose first attempt failed and was retried has ended in
\* success; its entry counts one success and no failure
RetriedFailureNotCounted ==
    \E r \in Slots :
        /\ req[r].pc = "done"
        /\ req[r]._requestedModel # ""
        /\ Len(obs[r].attempts) = 2
        /\ obs[r].attempts[1].kind = "auth"
        /\ obs[r].attempts[1].next = "retry"
        /\ obs[r].attempts[2].kind = "success"
        /\ HealthKeyOf(req[r]) \in DOMAIN modelHealth
        /\ StreaksOf(modelHealth, HealthKeyOf(req[r])) = <<0, 1>>

----------------------------------------------------------------------------
(* Access log *)

\* C23: exactly one access-log record is written per completed client request,
\* after its final attempt; attempts that are retried or signature-recovered
\* write no record of their own.
OneLogRecordPerRequest ==
    /\ [](\A r \in Slots :
             /\ req[r].pc = "done" => obs[r].logs = 1
             /\ req[r].pc \in {"forwarding", "streaming"} => obs[r].logs = 0)
    /\ [][\A r \in Slots :
             obs'[r].logs # obs[r].logs
                 => \/ obs'[r].logs = 0
                    \/ /\ obs'[r].logs = obs[r].logs + 1
                       /\ req'[r].pc = "done"
                       /\ obs'[r].attempts[LastAttempt(obs'[r])].next = "final"
        ]_vars

\* C24: if the client disconnects before the upstream response has ended,
\* forwarding is aborted and no sticky, cooldown or health update is made for
\* that attempt, while a log record of the partial trace is still written.
DisconnectSkipsUpdatesAndLogs ==
    /\ [](\A r \in Slots :
             (obs[r].clientGone /\ req[r].pc = "done") => obs[r].logs = 1)
    /\ [][\A r \in Slots :
             (obs[r].clientGone /\ req'[r] # req[r])
                 => /\ Len(obs'[r].attempts) = Len(obs[r].attempts)
                    /\ UNCHANGED <<stickyRoutes, targetCooldowns, modelHealth>>
        ]_vars

----------------------------------------------------------------------------
(* Proxy-level failures *)

\* what the client has received: the heads, the bodies and the stream chunks
ClientView(o) == <<o.heads, o.bodyFrom, o.written, o.ended>>

\* the step ends the attempt in flight of request r with a proxy-level failure
FailsAtProxy(r) ==
    /\ req[r].pc \in {"forwarding", "streaming"}
    /\ obs'[r].attempts[LastAttempt(obs[r])].next = "error"

\* C25: on a proxy-level failure of an attempt, on the first attempt or on a
\* retry, the client receives status 502 with the JSON body {error: "Proxy
\* Error", details} provided no response headers were sent before, and receives
\* nothing further for that request.
ProxyErrorAnswers502 ==
    [][\A r \in Slots :
          /\ FailsAtProxy(r)
                 => /\ req'[r].pc = "done"
                    /\ Len(obs'[r].attempts) = Len(obs[r].attempts)
                    /\ IF req[r].headersSent
                       THEN ClientView(obs'[r]) = ClientView(obs[r])
                       ELSE /\ obs[r].heads = <<>>
                            /\ obs[r].bodyFrom = {}
                            /\ ClientView(obs'[r]) = <<<<0>>, {0}, <<>>, TRUE>>
          /\ (req[r].pc = "done" /\ req'[r].pc = "done")
                 => ClientView(obs'[r]) = ClientView(obs[r])
      ]_vars

\* C25 case: the retry of a request failed at the proxy level, and the client
\* has the 502 and nothing else
RetryFailedAtProxy ==
    \E r \in Slots :
        /\ req[r].pc = "done"
        /\ Len(obs[r].attempts) = 2
        /\ obs[r].attempts[1].next = "retry"
        /\ obs[r].attempts[2].next = "error"
        /\ ClientView(obs[r]) = <<<<0>>, {0}, <<>>, TRUE>>

----------------------------------------------------------------------------
(* The rewriter and the path normalization applied to request bodies and   *)
(* paths, and again to what they returned                                  *)

MaxPasses == 2
MaxTokens == 3

MaxSegments == 5

InitRewrite ==
    /\ now = 0
    /\ ticks = 0
    /\ started = 0
    /\ MAX_TARGET_RETRIES = 0
    /\ RETRY_AUTH_ON_5XX = FALSE
    /\ globalConf = DefaultConf
    /\ MODEL_ROUTER_CONFIG = normalize_lb_model_router_config(globalConf.lb_model_router)
    /\ LET JsonNumbers == {<<>>} \cup {<<n>> : n \in 0..MaxTokens}
           Payloads == [model : {<<>>, << <<"m">> >>, << <<"m", "(", "low", ")">> >>},
                        max_tokens : JsonNumbers,
                        thinking : {<<>>} \cup {<<[budget_tokens |-> n]>> : n \in JsonNumbers},
                        reasoning_effort : {<<>>, << <<"low">> >>},
                        metadata : {<<>>, <<"user">>}]
           Params == [reasoning_effort : {<<>>, <<" ", "high">>},
                      thinking_budget_max : {<<>>, <<MaxTokens - 1>>},
                      max_tokens_max : {<<>>, <<1>>, <<MaxTokens - 1>>},
                      max_tokens_default : {<<>>, <<1>>, <<MaxTokens>>},
                      thinking_level : {<<>>, <<"high", " ">>}]
           Targets == [rewrite : {<<"m">>, <<"up">>},
                       provider : {"minimax", "unknown"},
                       params : {<<>>} \cup {<<params>> : params \in Params}]
           Paths == UNION {[1..n -> {"v1", "chat"}] : n \in 0..MaxSegments}
       IN  \/ \E body \in Payloads, target \in Targets :
                  forwarded = [NothingForwarded EXCEPT !.body = body, !.received = body,
                                                       !.target = target]
           \/ \E url \in Paths : forwarded = [NothingForwarded EXCEPT !.url = url]
    /\ drawn = NoPool
    /\ stickyRoutes = EmptyMap
    /\ targetCooldowns = EmptyMap
    /\ modelHealth = EmptyMap
    /\ req = [r \in Slots |-> IdleReq]
    /\ obs = [r \in Slots |-> IdleObs]
    /\ stickyLog = EmptyMap
    /\ cooldownLog = EmptyMap

\* req.url = normalizeProxyPath(req.url), on a path that may itself be one it returned
NormalizeUrl ==
    /\ forwarded.urlPasses < MaxPasses
    /\ forwarded' = [forwarded EXCEPT !.url = normalizeProxyPath(forwarded.url),
                                      !.urlPasses = @ + 1]
    /\ UNCHANGED <<now, ticks, started, MAX_TARGET_RETRIES, RETRY_AUTH_ON_5XX, globalConf,
                   MODEL_ROUTER_CONFIG, drawn, stickyRoutes, targetCooldowns, modelHealth, req,
                   obs, stickyLog, cooldownLog>>

\* forwardRequestToTarget's call of cloneRequestPayloadForTarget, on a body that
\* may itself be one the rewriter returned
RewriteBody ==
    /\ forwarded.bodyPasses < MaxPasses
    /\ forwarded' = [forwarded EXCEPT
                        !.body = cloneRequestPayloadForTarget(forwarded.body, forwarded.target),
                        !.bodyPasses = @ + 1]
    /\ UNCHANGED <<now, ticks, started, MAX_TARGET_RETRIES, RETRY_AUTH_ON_5XX, globalConf,
                   MODEL_ROUTER_CONFIG, drawn, stickyRoutes, targetCooldowns, modelHealth, req,
                   obs, stickyLog, cooldownLog>>

NextRewrite ==
    \/ RewriteBody
    \/ NormalizeUrl

SpecRewrite == InitRewrite /\ [][NextRewrite]_vars

\* C26: the rewrite is idempotent: a body the rewriter returned for a target is
\* returned unchanged when the rewriter is applied to it again with that target
RewriteIdempotent ==
    forwarded.bodyPasses >= 1
        => cloneRequestPayloadForTarget(forwarded.body, forwarded.target) = forwarded.body

\* C27: path normalization is idempotent: a path normalizeProxyPath returned,
\* also one that came with three or more /v1 prefixes, is returned unchanged
\* when it is normalized again
PathNormalizationIdempotent ==
    forwarded.urlPasses >= 1 => normalizeProxyPath(forwarded.url) = forwarded.url

\* the positive thinking budget of a payload, 0 when it has none
BudgetOf(payload) ==
    IF payload.thinking = <<>> THEN 0 ELSE toPositiveInt(payload.thinking[1].budget_tokens)

\* the budget of the received body once thinking_budget_max has capped it
CappedBudget ==
    LET thinkingBudgetMax == IF forwarded.target.params = <<>> THEN 0
                             ELSE toPositiveInt(forwarded.target.params[1].thinking_budget_max)
        received == BudgetOf(forwarded.received)
    IN  IF thinkingBudgetMax > 0 /\ received > thinkingBudgetMax THEN thinkingBudgetMax ELSE received

\* what the rewriter left of a capped budget next to the max_tokens it wrote
BudgetFitted ==
    LET maxTokens == toPositiveInt(forwarded.body.max_tokens)
    IN  maxTokens > 0 /\ CappedBudget > 0
            => /\ CappedBudget < maxTokens => BudgetOf(forwarded.body) = CappedBudget
               /\ (CappedBudget >= maxTokens /\ maxTokens > 1)
                      => BudgetOf(forwarded.body) = maxTokens - 1
               /\ (CappedBudget >= maxTokens /\ maxTokens <= 1)
                      => forwarded.body.thinking = <<[budget_tokens |-> <<>>]>>

\* C28 as stated: after the rewriter has run for any target, a payload with a
\* positive max_tokens and a positive thinking budget has budget < max_tokens, a
\* budget of max_tokens - 1 being kept, a larger one reduced to max_tokens - 1 and
\* the budget deleted when max_tokens <= 1
BudgetBelowMaxTokens ==
    /\ (forwarded.bodyPasses >= 1 /\ toPositiveInt(forwarded.body.max_tokens) > 0
            /\ BudgetOf(forwarded.body) > 0)
           => BudgetOf(forwarded.body) < toPositiveInt(forwarded.body.max_tokens)
    /\ forwarded.bodyPasses = 1 => BudgetFitted

\* C28: after the rewriter has run for a target that has a params object, a
\* payload with a positive max_tokens and a positive thinking budget has
\* budget < max_tokens: a budget below max_tokens (max_tokens - 1 included) is
\* kept, a budget >= max_tokens is reduced to max_tokens - 1, and it is deleted
\* when max_tokens <= 1
BudgetBelowMaxTokensWithParams ==
    forwarded.target.params # <<>>
        => /\ (forwarded.bodyPasses >= 1 /\ toPositiveInt(forwarded.body.max_tokens) > 0
                   /\ BudgetOf(forwarded.body) > 0)
                  => BudgetOf(forwarded.body) < toPositiveInt(forwarded.body.max_tokens)
           /\ forwarded.bodyPasses = 1 => BudgetFitted

\* a budget above the max_tokens the target's cap left was reduced to one below it
BudgetReducedBelowCap ==
    /\ forwarded.bodyPasses = 1
    /\ forwarded.target.params # <<>>
    /\ toPositiveInt(forwarded.target.params[1].max_tokens_max) = MaxTokens - 1
    /\ toPositiveInt(forwarded.received.max_tokens) = MaxTokens
    /\ BudgetOf(forwarded.received) = MaxTokens
    /\ forwarded.target.params[1].thinking_budget_max = <<>>
    /\ toPositiveInt(forwarded.body.max_tokens) = MaxTokens - 1
    /\ BudgetOf(forwarded.body) = MaxTokens - 2

----------------------------------------------------------------------------
(* Weighted random over the candidate pools of routes with any weights *)

MaxDraws == 2
MaxWeight == 2

InitPool ==
    /\ now = 0
    /\ ticks = 0
    /\ started = 0
    /\ MAX_TARGET_RETRIES = 0
    /\ RETRY_AUTH_ON_5XX = FALSE
    /\ globalConf = DefaultConf
    /\ MODEL_ROUTER_CONFIG = normalize_lb_model_router_config(globalConf.lb_model_router)
    /\ forwarded = NothingForwarded
    /\ \E targets \in {<<TA>>, <<TA, TB>>, <<TA, TB, TC>>} :
           \E weights \in UNION {[1..n -> (-1)..MaxWeight] : n \in 0..Len(targets)} :
               drawn = [NoPool EXCEPT !.route = [targets |-> targets, weights |-> weights]]
    /\ stickyRoutes = EmptyMap
    /\ targetCooldowns = EmptyMap
    /\ modelHealth = EmptyMap
    /\ req = [r \in Slots |-> IdleReq]
    /\ obs = [r \in Slots |-> IdleObs]
    /\ stickyLog = EmptyMap
    /\ cooldownLog = EmptyMap

\* setTargetCooldown for the i-th target of the route
CoolPooledTarget(i) ==
    /\ targetCooldownKey("pool", drawn.route.targets[i]) \notin DOMAIN targetCooldowns
    /\ targetCooldowns' = setTargetCooldown(targetCooldowns, "pool", drawn.route.targets[i],
                                            SIGNATURE_COOLDOWN_MS, now)
    /\ UNCHANGED <<now, ticks, started, MAX_TARGET_RETRIES, RETRY_AUTH_ON_5XX, globalConf,
                   MODEL_ROUTER_CONFIG, forwarded, drawn, stickyRoutes, modelHealth, req, obs,
                   stickyLog, cooldownLog>>

\* weightedRandom(candidates.targets, candidates.weights) in the handler
WeightedDraw ==
    /\ drawn.draws < MaxDraws
    /\ \E candidates \in {getRouteCandidates(targetCooldowns, drawn.route, "pool", now)} :
           \E target \in weightedRandom(candidates.targets, candidates.weights) :
               drawn' = [drawn EXCEPT !.candidates = candidates, !.picked = target,
                                    !.draws = @ + 1]
    /\ targetCooldowns' = afterGetRouteCandidates(targetCooldowns, drawn.route, "pool", now)
    /\ UNCHANGED <<now, ticks, started, MAX_TARGET_RETRIES, RETRY_AUTH_ON_5XX, globalConf,
                   MODEL_ROUTER_CONFIG, forwarded, stickyRoutes, modelHealth, req, obs,
                   stickyLog, cooldownLog>>

NextPool ==
    \/ \E i \in 1..Len(drawn.route.targets) : CoolPooledTarget(i)
    \/ WeightedDraw

SpecPool == InitPool /\ [][NextPool]_vars

RECURSIVE FirstExceeding(_, _, _)
\* the first index whose cumulative weight exceeds r
FirstExceeding(weights, r, i) ==
    IF SumSeq(weights, i) > r THEN i ELSE FirstExceeding(weights, r, i + 1)

\* C29: in every candidate pool a missing, zero or negative weight counts as 1,
\* so every weight is >= 1 and the draw r from [0, sum of weights) returns the
\* first target whose cumulative weight exceeds r; a pool of one target returns
\* that target
EveryWeightAtLeastOne ==
    drawn.draws >= 1
        => LET targets == drawn.candidates.targets
               weights == drawn.candidates.weights
           IN  /\ \A i \in 1..Len(weights) : weights[i] >= 1
               /\ drawn.picked \in {targets[FirstExceeding(weights, r, 1)] :
                                      r \in 0..(SumSeq(weights, Len(weights)) - 1)}
               /\ Len(targets) = 1 => drawn.picked = targets[1]

----------------------------------------------------------------------------
(* A deployment without a cooldown for transient failures *)

InitRetry ==
    /\ now = 0
    /\ ticks = 0
    /\ started = 0
    /\ MAX_TARGET_RETRIES = MaxRetriesConfig
    /\ RETRY_AUTH_ON_5XX = TRUE
    /\ globalConf = [DefaultConf EXCEPT !.lb_transient_cooldown_ms = 0]
    /\ MODEL_ROUTER_CONFIG = normalize_lb_model_router_config(globalConf.lb_model_router)
    /\ forwarded = NothingForwarded
    /\ drawn = NoPool
    /\ stickyRoutes = EmptyMap
    /\ targetCooldowns = EmptyMap
    /\ modelHealth = EmptyMap
    /\ req = [r \in Slots |-> IdleReq]
    /\ obs = [r \in Slots |-> IdleObs]
    /\ stickyLog = EmptyMap
    /\ cooldownLog = EmptyMap

SpecRetry == InitRetry /\ [][Next]_vars

\* the identities request r had been forwarded to when its i-th attempt ended
TriedBy(r, i) == {obs[r].attempts[j].id : j \in 1..i}

\* the identities of the targets of an alias
IdentitiesOf(model) ==
    {targetIdentity(ROUTES[model].targets[k]) : k \in 1..Len(ROUTES[model].targets)}

\* C30: a retriable attempt is retried on a target of the current alias that is
\* neither tried nor the current one (an untried target that is not cooling
\* when there is one, an untried cooling one otherwise), hence it is retried
\* whenever the alias still has a target not yet tried in this request
RetriedWhileUntriedLeft ==
    \A r \in Slots : \A i \in AttemptIdx(r) :
        LET a == obs[r].attempts[i]
        IN  (/\ a.next # "pending"
             /\ HasRoute(a.model)
             /\ canRetry(a.sse, req[r].method, a.retryCount, MAX_TARGET_RETRIES,
                         RETRY_AUTH_ON_5XX, a.kind, a.status, a.headersSent))
                => /\ a.next = "retry" <=> IdentitiesOf(a.model) \ TriedBy(r, i) # {}
                   /\ a.next = "retry" =>
                          /\ i < Len(obs[r].attempts)
                          /\ obs[r].attempts[i + 1].model = a.model
                          /\ obs[r].attempts[i + 1].id \in IdentitiesOf(a.model) \ TriedBy(r, i)

----------------------------------------------------------------------------
(* Thinking requests *)

\* the only live sticky entry of the session of the arriving thinking request
\* r is the one of the alias resolved for it
StickyForResolvedOnly(r) ==
    /\ ThinkingWithLiveSticky(r)
    /\ HasRoute(RouterResolved(req'[r]))
    /\ LiveStickyAliases(SessionOf(req'[r]))
           = {i \in 1..Len(RouteOrder) : RouteOrder[i] = RouterResolved(req'[r])}

\* request r is forwarded to the sticky target of its resolved alias
LockedToResolved(r, decision) ==
    LET model == RouterResolved(req'[r])
        target == EntryTarget(stickyRoutes[stickyRouteKey(SessionOf(req'[r]), model)])
    IN  /\ req'[r]._model = model
        /\ req'[r]._selectedTarget = target
        /\ req'[r]._routingDecision = decision
        /\ obs'[r].attempts = <<Attempt(targetIdentity(target), model, "first")>>

ThinkingWithoutSticky(r) ==
    /\ Arrives(r)
    /\ req'[r]._hasThinkingSignature
    /\ HasRoute(RouterResolved(req'[r]))
    /\ req'[r]._sessionKeyHash # "" => LiveStickyAliases(SessionOf(req'[r])) = {}

\* positions of the targets of an alias that are not cooling for it, or of all
\* its targets when every one is cooling
PrimaryPool(model) ==
    LET all == 1..Len(ROUTES[model].targets)
        notCooling == {i \in all : ~isTargetCooling(targetCooldowns, model,
                                                    ROUTES[model].targets[i], now)}
    IN  IF notCooling = {} THEN all ELSE notCooling

\* the position in the pool with the highest weight, the earliest of equals
Primary(model) ==
    CHOOSE i \in PrimaryPool(model) :
        \A j \in PrimaryPool(model) :
            \/ ROUTES[model].weights[i] > ROUTES[model].weights[j]
            \/ ROUTES[model].weights[i] = ROUTES[model].weights[j] /\ i <= j

PrimaryDecision(r, model) ==
    LET allCooling == \A i \in 1..Len(ROUTES[model].targets) :
                          isTargetCooling(targetCooldowns, model, ROUTES[model].targets[i], now)
        noSession == req'[r]._sessionKeyHash = ""
    IN  CASE ~noSession /\ ~allCooling -> "thinking_primary_locked"
          [] ~noSession /\ allCooling -> "thinking_primary_locked_all_targets_in_cooldown"
          [] noSession /\ ~allCooling -> "thinking_primary_locked_no_session"
          [] OTHER -> "thinking_primary_locked_no_session_all_targets_in_cooldown"

\* C32: a thinking request for which no sticky entry is found is forwarded to
\* the highest-weight target (the earliest on equal weights) among the targets
\* of the resolved alias that are not cooling, or among all of them when every
\* one is cooling, with decision thinking_primary_locked
\* (thinking_primary_locked_no_session without a session key) plus the suffix
\* _all_targets_in_cooldown in the fallback case
ThinkingPrimaryLocked ==
    [][\A r \in Slots :
          ThinkingWithoutSticky(r)
              => LET model == RouterResolved(req'[r])
                     target == ROUTES[model].targets[Primary(model)]
                 IN  /\ req'[r]._model = model
                     /\ req'[r]._selectedTarget = target
                     /\ req'[r]._routingDecision = PrimaryDecision(r, model)
                     /\ obs'[r].attempts = <<Attempt(targetIdentity(target), model, "first")>>]_vars

\* C32 case: a thinking request without a sticky entry is in flight on the
\* lighter target of its alias because the heavier one is cooling
PrimaryAroundCoolingTarget ==
    \E r \in Slots :
        /\ req[r].pc = "forwarding"
        /\ req[r]._hasThinkingSignature
        /\ req[r]._routingDecision = "thinking_primary_locked"
        /\ obs[r].attempts = <<Attempt(targetIdentity(req[r]._selectedTarget), req[r]._model, "first")>>
        /\ \E i \in 1..Len(ROUTES[req[r]._model].targets) :
               LET other == ROUTES[req[r]._model].targets[i]
               IN  /\ other # req[r]._selectedTarget
                   /\ ROUTES[req[r]._model].weights[i] > 1
                   /\ isTargetCooling(targetCooldowns, req[r]._model, other, now)
        /\ ~isTargetCooling(targetCooldowns, req[r]._model, req[r]._selectedTarget, now)

----------------------------------------------------------------------------
(* Failure streaks *)

\* the alias the request had when the handler asked resolveAutoUpgradeModel
AliasBeforeUpgrade(rq) == CurrentAlias(rq._modelRouter, rq._requestedModel)

\* the request last handled in slot r named an alias and has ended in a final
\* response that was classified as something other than success
EndedInFailure(r) ==
    /\ req[r].pc = "done"
    /\ req[r].method = "POST"
    /\ req[r]._requestedModel # ""
    /\ obs[r].attempts # <<>>
    /\ obs[r].attempts[LastAttempt(obs[r])].next = "final"
    /\ obs[r].attempts[LastAttempt(obs[r])].kind \notin {"", "success"}

\* the arrival follows a failed request of its session that resolved to the
\* same alias Y, the map leads from Y to an alias of the RouteTable and one
\* failure is the threshold
StreakReached(r, Y) ==
    /\ EndedInFailure(r)
    /\ req[r]._sessionKeyHash = req'[r]._sessionKeyHash
    /\ AliasBeforeUpgrade(req[r]) = Y
    /\ AliasBeforeUpgrade(req'[r]) = Y
    /\ AUTO_UPGRADE_ENABLED
    /\ AUTO_UPGRADE_FAILURE_STREAK_THRESHOLD = 1
    /\ HasUpgradeEntry(Y)
    /\ HasRoute(globalConf.lb_auto_upgrade_map[Y])

UpgradedOnStreak(rq, Y) ==
    /\ rq._autoUpgrade.hit
    /\ "failure_streak" \in rq._autoUpgrade.reasons
    /\ rq._autoUpgrade.targetModel = globalConf.lb_auto_upgrade_map[Y]
    /\ rq._model = globalConf.lb_auto_upgrade_map[Y]

\* C33: with auto-upgrade enabled, a map entry Y -> Z (Z in the RouteTable) and
\* failure threshold F: once a session's requests whose alias resolves to Y
\* (directly or through the model router) have ended in F consecutive
\* non-success final responses, that session's next such request is routed to
\* Z with reason failure_streak (checked for F = 1).
FailureStreakUpgrades ==
    [][\A r \in Slots, arrival \in RouterArrivals :
          Handles(r, arrival) =>
              \A Y \in DOMAIN ROUTES :
                  StreakReached(r, Y) => UpgradedOnStreak(req'[r], Y)
      ]_vars

\* the same for requests that name Y themselves, the router leaving it alone
FailureStreakUpgradesNamed ==
    [][\A r \in Slots, arrival \in RouterArrivals :
          Handles(r, arrival) =>
              \A Y \in DOMAIN ROUTES :
                  (StreakReached(r, Y) /\ req[r]._requestedModel = Y
                   /\ req'[r]._requestedModel = Y)
                      => UpgradedOnStreak(req'[r], Y)
      ]_vars

----------------------------------------------------------------------------
(* Requests without a route *)

\* the request is not a POST, its body was not parseable, or the alias the
\* router and auto-upgrade resolved is not in the RouteTable
Unrouted(rq) ==
    /\ rq.pc # "idle"
    /\ \/ rq.method # "POST"
       \/ rq._requestedModel = ""
       \/ ~HasRoute(RouterResolved(rq))

OnlyDefaultOrigin(r) ==
    /\ req[r]._selectedTarget = NoTarget
    /\ Len(obs[r].attempts) = 1
    /\ obs[r].attempts[1].id = DefaultOrigin

AnsweredUpstream(r) ==
    /\ req[r].pc = "done"
    /\ obs[r].attempts[LastAttempt(obs[r])].next = "final"

NextUnrouted ==
    \/ \E r \in SerialSlots : HandleNonPost(r)
    \/ \E r \in SerialSlots : HandleUnparseable(r)
    \/ \E r \in SerialSlots, signature \in {<<>>, <<"claude", "#", "s">>},
          sessionKey \in SessionKeys :
           HandlePost(r, Body("nope", signature, 1, 0, "unknown"), sessionKey)
    \/ \E r \in SerialSlots, response \in Responses :
           ProxyResEnd(r, response.status, response.summary)
    \/ \E r \in SerialSlots : ProxyError(r)

SpecUnrouted == Init /\ [][NextUnrouted]_vars

\* the first response of the request was a signature error and the request was
\* sent on to a target of the signature's group
RecoveredFromDefault(r) ==
    /\ req[r].method = "POST"
    /\ req[r]._hasThinkingSignature
    /\ Len(obs[r].attempts) >= 2
    /\ obs[r].attempts[1].kind = "signature"
    /\ obs[r].attempts[1].next = "signature"
    /\ obs[r].attempts[2].via = "signature"

----------------------------------------------------------------------------
(* Termination of a request *)

\* the attempt in flight completes (proxyRes 'end') or fails (proxy 'error')
AttemptEnds ==
    \E r \in SerialSlots :
        \/ \E response \in StreamResponses :
               ProxyResEnd(r, response.status, response.summary)
        \/ ProxyError(r)

\* every upstream attempt eventually completes or fails
SpecAnswered == Init /\ [][NextStream]_vars /\ WF_vars(AttemptEnds)

\* the attempts of request r that were signature recoveries
Recoveries(r) == {i \in AttemptIdx(r) : obs[r].attempts[i].via = "signature"}

AttemptsBounded(r) ==
    /\ Len(obs[r].attempts) <= MAX_TARGET_RETRIES + 2
    /\ Cardinality(OrdinaryRetries(r)) <= MAX_TARGET_RETRIES
    /\ Cardinality(Recoveries(r)) <= 1
    /\ \A i \in AttemptIdx(r) : i > 1 <=> obs[r].attempts[i].via \in {"retry", "signature"}

\* the client has response headers of the request and no attempt is in flight
Answered(r) ==
    /\ req[r].pc = "done"
    /\ req[r].headersSent
    /\ Len(obs[r].heads) = 1
    /\ obs[r].attempts[LastAttempt(obs[r])].next \in {"final", "error"}

\* C35: every client request makes at most MAX_TARGET_RETRIES + 2 upstream
\* attempts (one initial, at most MAX_TARGET_RETRIES ordinary retries, at most
\* one signature recovery, in any order), and provided every upstream attempt
\* eventually completes or fails, the request eventually reaches a state where
\* a response has been sent and no further attempt is started.
AttemptsBoundedAndAnswered ==
    /\ [](\A r \in Slots : AttemptsBounded(r))
    /\ [][\A r \in Slots :
             (req[r].pc = "done" /\ req'[r].pc = "done")
                 => obs'[r].attempts = obs[r].attempts]_vars
    /\ \A r \in Slots : (req[r].pc \in {"forwarding", "streaming"}) ~> Answered(r)

\* C35 case: with one retry configured a request has made three attempts, the
\* recovery before the ordinary retry, and has been answered
RecoveredThenRetried ==
    \E r \in Slots :
        /\ MAX_TARGET_RETRIES = 1
        /\ Answered(r)
        /\ Len(obs[r].attempts) = 3
        /\ obs[r].attempts[2].via = "signature"
        /\ obs[r].attempts[3].via = "retry"
        /\ obs[r].attempts[3].next = "final"

----------------------------------------------------------------------------
(* Targets and aliases *)

\* the attempt went to a target of the alias the request had when it was sent
SentWithinAlias(attempt) ==
    /\ HasRoute(attempt.model)
    /\ attempt.id \in IdentitiesOf(attempt.model)

\* C36: at every attempt that is sent to a selected target, the request's
\* current alias is an alias of the RouteTable and the target belongs to that
\* alias's target list; this holds after router resolution, auto-upgrade,
\* cross-model thinking lock, ordinary retry and signature recovery.
TargetOfCurrentAlias ==
    \A r \in Slots :
        /\ \A i \in AttemptIdx(r) :
               obs[r].attempts[i].id # DefaultOrigin => SentWithinAlias(obs[r].attempts[i])
        /\ (req[r].pc # "idle" /\ req[r]._selectedTarget # NoTarget) =>
               /\ HasRoute(req[r]._model)
               /\ targetIdentity(req[r]._selectedTarget) \in IdentitiesOf(req[r]._model)
               /\ obs[r].attempts[LastAttempt(obs[r])].id
                      = targetIdentity(req[r]._selectedTarget)
               /\ obs[r].attempts[LastAttempt(obs[r])].model = req[r]._model

\* C36 case: a request that named slow has been sent, after a signature
\* recovery and an ordinary retry, to targets that fast has and slow lacks
RetriedWithinRecoveryAlias ==
    \E r \in Slots :
        /\ req[r]._requestedModel = "slow"
        /\ req[r]._model = "fast"
        /\ Len(obs[r].attempts) = 3
        /\ obs[r].attempts[2].via = "signature"
        /\ obs[r].attempts[2].id = targetIdentity(TB)
        /\ obs[r].attempts[3].via = "retry"
        /\ obs[r].attempts[3].id = targetIdentity(TA)
        /\ targetIdentity(TB) \notin IdentitiesOf("slow")

\* C37: every sticky entry stored under a key (session, alias) names a target
\* that belongs to that alias's target list in the RouteTable, after any
\* sequence of attempts including ordinary retries and signature recovery that
\* changed the request's alias.
StickyWithinAlias ==
    \A key \in DOMAIN stickyRoutes :
        /\ HasRoute(key[2])
        /\ RouteHasEntry(ROUTES[key[2]], stickyRoutes[key])

----------------------------------------------------------------------------
(* Expired health entries *)

\* The router and auto-upgrade configurations, with the clock passing
\* MODEL_HEALTH_TTL_MS between requests and the health sweeper running or not
NextHealth ==
    \/ \E r \in SerialSlots, arrival \in RouterArrivals :
           HandlePost(r, arrival.body, arrival.sessionKey)
    \/ \E r \in SerialSlots, response \in RouterResponses :
           ProxyResEnd(r, response.status, response.summary)
    \/ Tick(MODEL_HEALTH_TTL_MS)
    \/ cleanupModelHealth

SpecHealth == InitRouter /\ [][NextHealth]_vars

Expired(key) ==
    /\ key \in DOMAIN modelHealth
    /\ modelHealth[key].updatedAt + MODEL_HEALTH_TTL_MS <= now

\* the health map as cleanupModelHealth would leave it now
Swept == MapDeleteAll(modelHealth, {k \in DOMAIN modelHealth : Expired(k)})

\* C38: a health entry whose last update is older than MODEL_HEALTH_TTL never
\* contributes a non-zero failure or success streak to a routing decision
\* (router factors or the auto-upgrade failure_streak trigger) and is never
\* continued by a later update, whether or not the periodic health sweeper has
\* run since it expired.
ExpiredHealthIgnored ==
    [][\A r \in Slots :
          /\ \A arrival \in RouterArrivals :
                 Handles(r, arrival) =>
                     \E asSwept \in {resolvedRequest(arrival.body, arrival.sessionKey,
                                                     Swept, now)} :
                         /\ req'[r]._modelRouter = asSwept._modelRouter
                         /\ req'[r]._autoUpgrade = asSwept._autoUpgrade
          /\ (Classified(r) /\ req'[r].pc = "done" /\ Expired(HealthKeyOf(req[r])))
                 => StreaksOf(modelHealth', HealthKeyOf(req[r])) \in {<<1, 0>>, <<0, 1>>}
      ]_vars

----------------------------------------------------------------------------
(* Rules as configured *)

\* the rules of the configuration file, named as the generator names them
ConfiguredRules == globalConf.lb_model_router.rules

ConfiguredName(idx) ==
    IF ConfiguredRules[idx].name = "" THEN "rule_" \o ToString(idx)
    ELSE ConfiguredRules[idx].name

\* a configured condition is satisfied if it has a field and a supported
\* operator and holds of the factors
ConditionSatisfied(condition, factors) ==
    /\ condition.field # ""
    /\ condition.op \in supported_ops
    /\ evaluateModelRouterCondition(condition, factors)

\* the conditions of the when-list as configured, under the rule's match mode
ConfiguredConditionsMatch(rule, factors) ==
    IF rule.match = "any"
    THEN \E i \in 1..Len(rule.when) : ConditionSatisfied(rule.when[i], factors)
    ELSE \A i \in 1..Len(rule.when) : ConditionSatisfied(rule.when[i], factors)

\* C39: a rule configured with a non-empty when-list matches a request only if
\* its configured conditions are satisfied under its match mode; in particular
\* a rule all of whose configured conditions are invalid (unsupported operator
\* or empty field name) never matches any request.
ConfiguredConditionsDecide ==
    [][\A r \in Slots, arrival \in RouterArrivals :
          Handles(r, arrival) =>
              \A idx \in 1..Len(ConfiguredRules) :
                  (/\ req'[r]._modelRouter.decision = "rule_hit_" \o ConfiguredName(idx)
                   /\ ConfiguredRules[idx].target_model # ""
                   /\ ConfiguredRules[idx].when # <<>>)
                      => ConfiguredConditionsMatch(ConfiguredRules[idx], FactorsOf(arrival))
      ]_vars

\* the same for the rules none of whose configured conditions is valid
UnusableRuleNeverHits ==
    [][\A r \in Slots, arrival \in RouterArrivals :
          Handles(r, arrival) =>
              \A idx \in 1..Len(ConfiguredRules) :
                  (/\ ConfiguredRules[idx].when # <<>>
                   /\ keptConditions(ConfiguredRules[idx].when,
                                     Len(ConfiguredRules[idx].when)) = <<>>)
                      => req'[r]._modelRouter.decision # "rule_hit_" \o ConfiguredName(idx)
      ]_vars

----------------------------------------------------------------------------
(* Proxy-level failures leave the maps alone *)

\* C40: a proxy-level failure of an attempt (no upstream response received)
\* leaves the sticky, cooldown and health maps exactly as they were before the
\* attempt, does not add a retry-trace entry and starts no retry on another
\* target.
ProxyFailureChangesNothing ==
    [][\A r \in Slots :
          FailsAtProxy(r) =>
              /\ stickyRoutes' = stickyRoutes
              /\ targetCooldowns' = targetCooldowns
              /\ modelHealth' = modelHealth
              /\ req'[r]._retryTrace = req[r]._retryTrace
              /\ req'[r]._retryCount = req[r]._retryCount
              /\ req'[r]._selectedTarget = req[r]._selectedTarget
              /\ req'[r]._triedTargets = req[r]._triedTargets
              /\ Len(obs'[r].attempts) = Len(obs[r].attempts)
              /\ req'[r].pc = "done"
      ]_vars

\* C40 case: the retry of a request failed at the proxy level; the cooldown of
\* the first attempt's target is all the request has left in the maps, the
\* trace has the one entry of the retry, and the health map has no entry
FailedRetryLeftOnlyFirstCooldown ==
    \E r \in Slots :
        /\ req[r].pc = "done"
        /\ req[r]._requestedModel = "fast"
        /\ Len(obs[r].attempts) = 2
        /\ obs[r].attempts[1].next = "retry"
        /\ obs[r].attempts[2].next = "error"
        /\ Len(req[r]._retryTrace) = 1
        /\ DOMAIN targetCooldowns = {targetCooldownKey("fast", RouteFind(ROUTES["fast"],
               [instance |-> obs[r].attempts[1].id[1], target |-> obs[r].attempts[1].id[2],
                rewrite |-> obs[r].attempts[1].id[3]]))}
        /\ modelHealth = EmptyMap
        /\ stickyRoutes = EmptyMap

====
